---- MODULE Spec2Model ----
(***************************************************************************)
(* The action-dispatch lifecycle of the Kiss store, as the repository's    *)
(* pages describe it: an action's before() / reduce() / after() sequence,  *)
(* its status, the store state it replaces, the set of actions in          *)
(* progress, and the dispatch functions dispatch, dispatchAndWait and      *)
(* dispatchSync.                                                           *)
(*                                                                         *)
(* JavaScript runs one turn to completion: a synchronous action runs its   *)
(* whole lifecycle inside the dispatch call, an asynchronous one runs up   *)
(* to its first pending promise and continues in a later turn.  Each       *)
(* action of the model is one such turn.                                   *)
(***************************************************************************)
EXTENDS Integers, Sequences, FiniteSets, TLC

\* ------------------------------------------------------------- bounds
\* Number of action objects created in one run of the core scenario.
MaxActions == 2

\* Number of action objects created in one run of the nonReentrant scenario.
MaxReentrantActions == 3

\* Number of action objects created in one run of the dispatchSync scenario.
MaxSyncActions == 2

\* Largest maxRetries an action of the model declares.
MaxRetriesBound == 1

\* Number of action objects created in one run of the error-handling scenario.
MaxErrorActions == 2

\* Number of action objects created in one run of the waitCondition scenario.
MaxWaitActions == 2

\* Number of action objects created in one run of the retry scenario.
MaxRetryActions == 2

\* Number of action objects created in one run of the wrapError scenario.
MaxWrapActions == 2

\* Number of action objects created in one run of the isFailed scenario.
MaxFailedActions == 3

\* Number of action objects created in one run of the abortDispatch scenario.
MaxAbortActions == 3

\* Number of action objects created in one run of the scenario of the waits
\* on actions in progress.
MaxProgressActions == 2

\* Number of action objects created in one run of the dispatch-order scenario.
MaxOrderActions == 3

\* Number of action objects created in one run of the dispatchAndWaitAll
\* scenario.
MaxBatchActions == 3

\* The longest list given to dispatchAll and to dispatchAndWaitAll.
MaxListLen == 2

\* The longest text given to AddTodoAction.
MaxTextLen == 2

\* The longest todo list.
MaxTodos == 2

\* Number of action objects created in one run of the observers scenario.
MaxObserveActions == 3

\* Number of state changes in one run of the persistor scenario.
MaxChanges == 2

\* Number of PersistAction dispatches in one run of the persistor scenario.
MaxPersistActions == 1

\* Number of steps the clock of the persistor scenario makes.
MaxTicks == 4

\* Number of action objects created in one run of the ignoreOld scenario.
MaxIgnoreOldActions == 3

\* Number of action objects created in one run of the completion scenario.
MaxLiveActions == 1

\* Number of action objects created in one run of the scenario of the waits
\* and queries.
MaxFrameActions == 2

\* ------------------------------------------------------------- values
NoError == "none"

\* The errors of the model.  ThrownError is an ordinary error thrown by
\* before() or reduce(), UserException the built-in error meant for the user,
\* WrappedError what an action's wrapError() makes of an error,
\* GlobalUserException the UserException globalWrapError() makes of an error.
ThrownError == "Error"

UserException == "UserException"

WrappedError == "WrappedError"

GlobalUserException == "GlobalUserException"

\* The error an after() throws.
AfterError == "AfterError"

IsUserException(e) == e \in {UserException, GlobalUserException}

\* How many action objects a run of each scenario creates.
Limit(sc) ==
  IF sc = "core" THEN MaxActions
  ELSE IF sc = "reentrant" THEN MaxReentrantActions
  ELSE IF sc = "errors" THEN MaxErrorActions
  ELSE IF sc = "wait" THEN MaxWaitActions
  ELSE IF sc = "retry" THEN MaxRetryActions
  ELSE IF sc = "wrap" THEN MaxWrapActions
  ELSE IF sc = "failed" THEN MaxFailedActions
  ELSE IF sc = "abort" THEN MaxAbortActions
  ELSE IF sc = "progress" THEN MaxProgressActions
  ELSE IF sc = "order" THEN MaxOrderActions
  ELSE IF sc = "batch" THEN MaxBatchActions
  ELSE IF sc = "observe" THEN MaxObserveActions
  ELSE IF sc = "ignoreOld" THEN MaxIgnoreOldActions
  ELSE IF sc = "frame" THEN MaxFrameActions
  ELSE IF sc = "live" THEN MaxLiveActions
  ELSE MaxSyncActions

MaxOf(S) == CHOOSE n \in S : \A m \in S : m <= n

Acts == 1..MaxOf({MaxActions, MaxReentrantActions, MaxSyncActions,
                  MaxErrorActions, MaxWaitActions, MaxRetryActions,
                  MaxWrapActions, MaxFailedActions, MaxAbortActions, MaxProgressActions,
                  MaxOrderActions, MaxBatchActions, MaxObserveActions,
                  MaxIgnoreOldActions, MaxFrameActions,
                  MaxLiveActions})

VARIABLES
  state,          \* the store state: the ids of the actions applied, in order
  act,            \* act[a]: the action object a (its fields and its status)
  inProgress,     \* the actions dispatched and not yet completed
  dispatchCount,  \* store.dispatchCount
  created,        \* number of action objects created so far
  awaiting,       \* the action the sequential caller is awaiting, if any
  scenario,       \* which kinds of action this run creates
  store,          \* what createStore was given: globalWrapError, errorObserver
  userExceptionsQueue,  \* store.userExceptionsQueue
  logged,         \* the actions whose after() error was given to Store.log()
  waiter,         \* the waitCondition call of this run, if any
  failed,         \* the failure the store keeps for each action type
  actionWaiter,   \* the waitAllActions or waitAnyActionTypeFinishes call of this run
  batch,          \* the dispatchAndWaitAll call of this run, if any
  recording,      \* store.record: whether it is on, and its result
  todo,           \* the todo list app: its list and the last AddTodoAction
  observers,      \* actionObserver and stateObserver: whether set, and their calls
  asked,          \* the last query some code made of the store, and its answer
  persist         \* the persistor the store was created with, and its calls

vars == <<state, act, inProgress, dispatchCount, created, awaiting, scenario,
          store, userExceptionsQueue, logged, waiter, failed, actionWaiter,
          batch, recording, todo, observers, asked, persist>>

\* ------------------------------------------------------------- status
\* action.status before the action is dispatched.
InitialStatus ==
  [ isDispatched            |-> FALSE,
    hasFinishedMethodBefore |-> FALSE,
    hasFinishedMethodReduce |-> FALSE,
    hasFinishedMethodAfter  |-> FALSE,
    isCompleted             |-> FALSE,
    originalError           |-> NoError,
    wrappedError            |-> NoError ]

\* status.isCompletedOk: completed, and neither before() nor reduce() threw.
IsCompletedOk(st) == st.isCompleted /\ st.originalError = NoError

\* As IsCompletedFailed, but computed as the negation of isCompletedOk.
IsCompletedFailedAsNotOk(st) == ~ IsCompletedOk(st)

\* status.isCompletedFailed: completed, and before() or reduce() threw.
IsCompletedFailed(st) == st.isCompleted /\ st.originalError # NoError

\* ------------------------------------------------------------- actions
\* As IsAsync, but only the reducer is looked at.
IsAsyncReduceOnly(cfg) == cfg.reduceAsync \/ cfg.retryOn

\* An action is async if before() or reduce() returns a Promise; an action
\* that uses retry becomes async whatever its reducer is.
IsAsync(cfg) == cfg.beforeAsync \/ cfg.reduceAsync \/ cfg.retryOn

\* The reducer of an async action (and of one that retries) completes in a
\* later turn than the call of reduce().
ReduceSuspends(cfg) == cfg.reduceAsync \/ cfg.retryOn

\* The action classes of each scenario.  An action's type is its class, so
\* the type fixes whether before() and reduce() are async and which features
\* the action declares.
Class(type, beforeAsync, reduceAsync, nonReentrant, retryOn, maxRetries) ==
  [ type |-> type, beforeAsync |-> beforeAsync, reduceAsync |-> reduceAsync,
    nonReentrant |-> nonReentrant, retryOn |-> retryOn, maxRetries |-> maxRetries,
    throws |-> ThrownError,   \* the error before() or reduce() throws, if it throws
    wrapError |-> "none",     \* wrapError(): not overridden, "wrap", "null",
                              \* "same" (returns the error) or "undefined"
    afterThrows |-> FALSE,    \* after() throws an error
    abortDispatch |-> "none", \* abortDispatch(): not overridden, or "noUser"
    ignoreOld |-> FALSE,      \* ignoreOld = true
    dispatches |-> "none" ]   \* the type of the action its reducer dispatches

CoreClasses ==
  { Class("SyncSync", FALSE, FALSE, FALSE, FALSE, 0),
    Class("SyncAsync", FALSE, TRUE, FALSE, FALSE, 0),
    Class("AsyncSync", TRUE, FALSE, FALSE, FALSE, 0),
    Class("AsyncAsync", TRUE, TRUE, FALSE, FALSE, 0) }

ReentrantClasses ==
  { Class("LoadText", FALSE, TRUE, TRUE, FALSE, 0),
    Class("LoadPrices", TRUE, FALSE, TRUE, FALSE, 0),
    Class("Increment", FALSE, TRUE, FALSE, FALSE, 0) }

\* The maxRetries of an action that has retry on and does not set it.
DefaultMaxRetries == 3

RetryClasses ==
  { Class("Retry", FALSE, FALSE, FALSE, TRUE, n) : n \in 0..MaxRetriesBound }

\* The actions of the retry scenario: with maxRetries set, and with the
\* default.
RetryScenarioClasses ==
  RetryClasses \cup { Class("RetryDefault", FALSE, FALSE, FALSE, TRUE, DefaultMaxRetries) }

\* The actions of the error-handling scenario: LogoutAction wraps its errors,
\* TransferMoney and SaveUser throw UserExceptions, IgnoreErrors disables its
\* own errors, Cleanup has an after() that throws.
ErrorClasses ==
  { [Class("LogoutAction", FALSE, TRUE, FALSE, FALSE, 0) EXCEPT !.wrapError = "wrap"],
    [Class("TransferMoney", FALSE, FALSE, FALSE, FALSE, 0) EXCEPT !.throws = UserException],
    [Class("SaveUser", FALSE, TRUE, FALSE, FALSE, 0) EXCEPT !.throws = UserException],
    [Class("IgnoreErrors", FALSE, FALSE, FALSE, FALSE, 0) EXCEPT !.wrapError = "null"],
    [Class("Cleanup", FALSE, FALSE, FALSE, FALSE, 0) EXCEPT !.afterThrows = TRUE] }

\* The actions of the wrapError scenario: LogoutAction wraps its errors,
\* IgnoreErrors disables them, MyAction has a wrapError() that returns the
\* error it gets, NoMessageAction has the wrapError() of the base action and
\* no wrapErrorMessage, so that its wrapError() returns nothing, and
\* TransferMoney does not override wrapError().
WrapClasses ==
  { [Class("LogoutAction", FALSE, TRUE, FALSE, FALSE, 0) EXCEPT !.wrapError = "wrap"],
    [Class("IgnoreErrors", FALSE, FALSE, FALSE, FALSE, 0) EXCEPT !.wrapError = "null"],
    [Class("MyAction", FALSE, FALSE, FALSE, FALSE, 0) EXCEPT !.wrapError = "same"],
    [Class("NoMessageAction", FALSE, FALSE, FALSE, FALSE, 0) EXCEPT !.wrapError = "undefined"],
    [Class("TransferMoney", FALSE, FALSE, FALSE, FALSE, 0) EXCEPT !.throws = UserException] }

\* The actions of the isFailed scenario: LoadText loads a text and may fail,
\* AddTodoAction throws a UserException.
FailedClasses ==
  { Class("LoadText", FALSE, TRUE, FALSE, FALSE, 0),
    [Class("AddTodoAction", FALSE, FALSE, FALSE, FALSE, 0) EXCEPT !.throws = UserException] }

\* The actions of the abortDispatch scenario: UpdateUserInfo and SendMessage
\* do not run while there is no user, LogIn puts the user into the state.
AbortClasses ==
  { [Class("UpdateUserInfo", FALSE, FALSE, FALSE, FALSE, 0) EXCEPT !.abortDispatch = "noUser"],
    [Class("SendMessage", FALSE, TRUE, FALSE, FALSE, 0) EXCEPT !.abortDispatch = "noUser"],
    Class("LogIn", FALSE, TRUE, FALSE, FALSE, 0) }

\* The actions of the scenario of the waits on actions in progress:
\* SellAction and BuyAction are async, SetNameAction is sync.
ProgressClasses ==
  { Class("SellAction", FALSE, TRUE, FALSE, FALSE, 0),
    Class("BuyAction", FALSE, TRUE, FALSE, FALSE, 0),
    Class("SetNameAction", FALSE, FALSE, FALSE, FALSE, 0) }

\* The action that only reducers dispatch: ResetNameAction, which is sync.
ReducerClasses ==
  { Class("ResetNameAction", FALSE, FALSE, FALSE, FALSE, 0) }

\* The actions the code of the dispatch-order scenario dispatches:
\* SetNameAction is sync, StartLoginAction is async and its reducer dispatches
\* a ResetNameAction before it finishes.
OrderClasses ==
  { Class("SetNameAction", FALSE, FALSE, FALSE, FALSE, 0),
    [Class("StartLoginAction", FALSE, TRUE, FALSE, FALSE, 0) EXCEPT !.dispatches = "ResetNameAction"] }

\* The actions of the dispatchAndWaitAll scenario.
BatchClasses ==
  { Class("SellAction", FALSE, TRUE, FALSE, FALSE, 0),
    Class("SetNameAction", FALSE, FALSE, FALSE, FALSE, 0) }

\* The actions of the observers scenario: SetNameAction is sync, LoadUser is
\* async, LogoutAction is async and wraps its errors.
ObserveClasses ==
  { Class("SetNameAction", FALSE, FALSE, FALSE, FALSE, 0),
    Class("LoadUser", FALSE, TRUE, FALSE, FALSE, 0),
    [Class("LogoutAction", FALSE, TRUE, FALSE, FALSE, 0) EXCEPT !.wrapError = "wrap"] }

\* The actions of the ignoreOld scenario: LoadText has ignoreOld = true,
\* LoadUser has not; both are async.
IgnoreOldClasses ==
  { [Class("LoadText", FALSE, TRUE, FALSE, FALSE, 0) EXCEPT !.ignoreOld = TRUE],
    Class("LoadUser", FALSE, TRUE, FALSE, FALSE, 0) }

\* The actions of the scenario of the waits and queries: SetNameAction is
\* sync, LoadUser is async and has an async before().
FrameClasses ==
  { Class("SetNameAction", FALSE, FALSE, FALSE, FALSE, 0),
    Class("LoadUser", TRUE, TRUE, FALSE, FALSE, 0) }

\* The actions of the completion scenario: LoadPrices has an async before()
\* and an async reducer, and LoadText retries its reducer once.
LiveClasses ==
  { Class("LoadPrices", TRUE, TRUE, FALSE, FALSE, 0),
    Class("LoadText", FALSE, FALSE, FALSE, TRUE, 1) }

\* The actions of the waitCondition scenario.
WaitClasses ==
  { Class("ChangeNameAction", FALSE, FALSE, FALSE, FALSE, 0),
    Class("LogInUser", FALSE, TRUE, FALSE, FALSE, 0) }

ClassesOf(sc) ==
  IF sc = "core" THEN CoreClasses
  ELSE IF sc = "reentrant" THEN ReentrantClasses
  ELSE IF sc = "errors" THEN ErrorClasses
  ELSE IF sc = "wait" THEN WaitClasses
  ELSE IF sc = "retry" THEN RetryScenarioClasses
  ELSE IF sc = "wrap" THEN WrapClasses
  ELSE IF sc = "failed" THEN FailedClasses
  ELSE IF sc = "abort" THEN AbortClasses
  ELSE IF sc = "progress" THEN ProgressClasses
  ELSE IF sc = "order" THEN OrderClasses
  ELSE IF sc = "batch" THEN BatchClasses
  ELSE IF sc = "observe" THEN ObserveClasses
  ELSE IF sc = "ignoreOld" THEN IgnoreOldClasses
  ELSE IF sc = "frame" THEN FrameClasses
  ELSE IF sc = "live" THEN LiveClasses
  ELSE CoreClasses \cup RetryClasses

\* A store created with neither globalWrapError nor errorObserver.
PlainStore == [ globalWrapError |-> "none", errorObserver |-> "none" ]

\* What createStore may be given: globalWrapError not set, turning errors into
\* UserExceptions ("wrap") or disabling them ("null"); errorObserver not set,
\* returning true or returning false.
StoreConfigs ==
  [ globalWrapError : {"none", "wrap", "null"},
    errorObserver : {"none", "true", "false"} ]

\* A store created with a globalWrapError that turns errors into
\* UserExceptions.
WrappingStore == [ globalWrapError |-> "wrap", errorObserver |-> "none" ]

NoConfig == Class("none", FALSE, FALSE, FALSE, FALSE, 0)

NoView == [ state |-> <<>>, completed |-> {}, running |-> {} ]

\* The default timeout of the wait functions, in milliseconds (10 minutes).
DefaultTimeoutMillis == 600000

\* The timeout of the example, in milliseconds.
ExampleTimeoutMillis == 1000

\* The timeoutMillis a waitCondition call is given; a call that gives none
\* gets the default.
WaitTimeouts == {-1, 0, ExampleTimeoutMillis, DefaultTimeoutMillis}

\* The state conditions of the model: the number of changes in the state is
\* at least n, or is exactly n.  With n above the number of actions of the
\* run the condition is never met.
WaitConds == [ exact : BOOLEAN, n : 1..(MaxWaitActions + 1) ]

CondHolds(c, s) == IF c.exact THEN Len(s) = c.n ELSE Len(s) >= c.n

\* No waitCondition call was made yet.
NoWaiter ==
  [ status |-> "none", cond |-> [exact |-> FALSE, n |-> 1], timeoutMillis |-> 0,
    calledState |-> <<>>, resolvedState |-> <<>>, trigger |-> {}, error |-> NoError ]

\* No waitAllActions and no waitAnyActionTypeFinishes call was made yet.
NoActionWaiter ==
  [ status |-> "none", kind |-> "none", actions |-> {}, types |-> {},
    calledRunning |-> {}, calledCompleted |-> {}, resolvedRunning |-> {},
    trigger |-> {}, error |-> NoError, timeoutMillis |-> DefaultTimeoutMillis ]

\* No dispatchAndWaitAll call was made yet.
NoBatch ==
  [ status |-> "none", actions |-> <<>>, result |-> <<>>,
    resolvedState |-> <<>>, resolvedCompleted |-> {} ]

\* State.initialState of the todo list app, and no AddTodoAction dispatched.
NoTodo ==
  [ todoList |-> <<>>, text |-> <<>>, prevList |-> <<>>, status |-> InitialStatus ]

\* No query was made of the store yet.
NoQuery ==
  [ fn |-> "none", type |-> "none", truth |-> FALSE, error |-> NoError, actions |-> {} ]

\* An action object that was created and not yet dispatched.
NewAction ==
  [ cfg         |-> NoConfig,
    phase       |-> "new",
    mode        |-> "none",   \* the dispatch function it was given to
    status      |-> InitialStatus,
    nBefore     |-> 0,        \* calls of before()
    nReduce     |-> 0,        \* calls of reduce()
    nAfter      |-> 0,        \* calls of after()
    afterInOrder |-> TRUE,    \* every call of after() came when before() and reduce() were over
    doneAt      |-> 0,        \* it was the doneAt-th action to complete
    nApplied    |-> 0,        \* times its result replaced the store state
    beforeThrew |-> FALSE,
    reduceThrew |-> FALSE,
    result      |-> "none",   \* what the last reduce() returned
    atStart     |-> NoView,   \* what the store held when it was dispatched
    preApply    |-> <<>>,     \* the store state right before its apply step
    atEnd       |-> <<>>,     \* the store state right after it completed
    resolved    |-> FALSE,    \* the dispatchAndWait promise has resolved
    resolvedStatus |-> InitialStatus,
    resolvedState  |-> <<>>,
    storeException |-> FALSE, \* dispatchSync threw a StoreException
    afterThrew  |-> FALSE,
    nReduceThrew |-> 0,       \* calls of reduce() that threw
    thrown      |-> NoError,  \* the last error before() or reduce() threw
    error       |-> NoError,  \* the error being handled, null once disabled
    errLog      |-> <<>>,     \* the error handlers called, with what they got and gave
    rethrown    |-> NoError,  \* the error the dispatcher threw on
    cleared     |-> FALSE,    \* clearExceptionFor was called for its type after it failed
    parent      |-> 0,        \* the action whose reducer dispatched it, if any
    nDispatched |-> 0         \* the actions its reducer has dispatched
  ]

Completed(w) == { a \in Acts : w.act[a].status.isCompleted }

\* What a dispatch call finds: the store state, the actions already completed
\* and the actions in progress.
View(w) == [ state |-> w.state, completed |-> Completed(w), running |-> w.inProgress ]

\* before() and reduce() are over for this action: each returned or threw, or
\* was skipped because before() threw.
BodyIsOver(x) ==
  /\ x.nBefore >= 1
  /\ x.beforeThrew \/ x.status.hasFinishedMethodBefore
  /\ x.beforeThrew \/ x.reduceThrew \/ x.status.hasFinishedMethodReduce

\* The store and its actions, threaded through the steps of one turn.
World == [ state |-> state, act |-> act, inProgress |-> inProgress,
           dispatchCount |-> dispatchCount,
           userExceptionsQueue |-> userExceptionsQueue,
           logged |-> logged, waiter |-> waiter, failed |-> failed,
           actionWaiter |-> actionWaiter, batch |-> batch,
           recording |-> recording, observers |-> observers ]

Install(w) ==
  /\ state' = w.state
  /\ act' = w.act
  /\ inProgress' = w.inProgress
  /\ dispatchCount' = w.dispatchCount
  /\ userExceptionsQueue' = w.userExceptionsQueue
  /\ logged' = w.logged
  /\ waiter' = w.waiter
  /\ failed' = w.failed
  /\ actionWaiter' = w.actionWaiter
  /\ batch' = w.batch
  /\ recording' = w.recording
  /\ observers' = w.observers

\* ------------------------------------------------------------- lifecycle
\* As Reduced, but the changes are kept in the order the actions were
\* dispatched in.
ReducedInDispatchOrder(s, a) ==
  LET lower == SelectSeq(s, LAMBDA b : b < a)
      upper == SelectSeq(s, LAMBDA b : b > a)
  IN lower \o <<a>> \o upper

\* The state a reducer's result installs: the reducer's own change made to
\* the given state.  A sync reducer computes it from this.state, an async one
\* returns the function (state) => ... that the store calls with its state.
Reduced(s, a) == Append(s, a)

\* As IsReentry, but any running action counts.
IsReentryAnyType(w, cfg) == cfg.nonReentrant /\ w.inProgress # {}

\* nonReentrant: another action of the same type is already running.
IsReentry(w, cfg) ==
  /\ cfg.nonReentrant
  /\ \E b \in w.inProgress : w.act[b].cfg.type = cfg.type

\* The store forgets the failure it keeps for the action type.
ClearFailed(w, type) == [w EXCEPT !.failed = { f \in @ : f.type # type }]

\* The store keeps the failure of the action for its type, in the place of
\* the one it kept.
RecordFailure(w, a) ==
  LET x == w.act[a] IN
  [w EXCEPT !.failed = { f \in @ : f.type # x.cfg.type }
                         \cup {[ type |-> x.cfg.type, action |-> a,
                                 error |-> x.status.originalError ]}]

\* store.record, if it is on, gets the entry of an action that starts.
RecordIni(w, a) ==
  IF w.recording.on
  THEN [w EXCEPT !.recording.result =
          Append(@, [ action |-> a, ini |-> TRUE, prevState |-> w.state,
                      newState |-> w.state, error |-> NoError,
                      dispatchCount |-> w.dispatchCount ])]
  ELSE w

\* store.record, if it is on, gets the entry of an action that ends: the
\* state the action found when its result was applied, and the state it left.
RecordEnd(w, a) ==
  IF w.recording.on
  THEN [w EXCEPT !.recording.result =
          Append(@, [ action |-> a, ini |-> FALSE, prevState |-> w.act[a].preApply,
                      newState |-> w.state, error |-> w.act[a].status.originalError,
                      dispatchCount |-> w.dispatchCount ])]
  ELSE w

\* As ObserveAction, but the observer is called when the action is dispatched
\* only.
ObserveActionOnDispatchOnly(w, a, ini) ==
  IF w.observers.on /\ ini
  THEN [w EXCEPT !.observers.calls =
          Append(@, [ fn |-> "actionObserver", action |-> a, ini |-> ini,
                      prevState |-> <<>>, newState |-> <<>>, error |-> NoError,
                      dispatchCount |-> w.dispatchCount, storeState |-> w.state,
                      nApplied |-> w.act[a].nApplied, nAfter |-> w.act[a].nAfter,
                      nHandlers |-> Len(w.act[a].errLog) ])]
  ELSE w

\* actionObserver(action, dispatchCount, ini), if the store has one, is called.
\* The call is kept with what the store held when it was made: its state, and
\* how far the action had got.
ObserveAction(w, a, ini) ==
  IF w.observers.on
  THEN [w EXCEPT !.observers.calls =
          Append(@, [ fn |-> "actionObserver", action |-> a, ini |-> ini,
                      prevState |-> <<>>, newState |-> <<>>, error |-> NoError,
                      dispatchCount |-> w.dispatchCount, storeState |-> w.state,
                      nApplied |-> w.act[a].nApplied, nAfter |-> w.act[a].nAfter,
                      nHandlers |-> Len(w.act[a].errLog) ])]
  ELSE w

\* stateObserver(action, prevState, newState, error, dispatchCount), if the
\* store has one, is called; newState is the state the store holds.
ObserveState(w, a, prevState, error) ==
  IF w.observers.on
  THEN [w EXCEPT !.observers.calls =
          Append(@, [ fn |-> "stateObserver", action |-> a, ini |-> FALSE,
                      prevState |-> prevState, newState |-> w.state, error |-> error,
                      dispatchCount |-> w.dispatchCount, storeState |-> w.state,
                      nApplied |-> w.act[a].nApplied, nAfter |-> w.act[a].nAfter,
                      nHandlers |-> Len(w.act[a].errLog) ])]
  ELSE w

\* As Submit, but the promise of dispatchAndWait resolves at once.
SubmitResolved(w, a, cfg, mode) ==
  [w EXCEPT !.dispatchCount = @ + 1,
            !.inProgress = @ \cup {a},
            !.act[a].cfg = cfg,
            !.act[a].mode = mode,
            !.act[a].phase = "running",
            !.act[a].status.isDispatched = TRUE,
            !.act[a].atStart = View(w),
            !.act[a].resolved = (mode = "wait")]

\* As Submit, but the failure kept for the action type stays.
SubmitKeepsFailure(w, a, cfg, mode) ==
  RecordIni([w EXCEPT !.dispatchCount = @ + 1,
                      !.inProgress = @ \cup {a},
                      !.act[a].cfg = cfg,
                      !.act[a].mode = mode,
                      !.act[a].phase = "running",
                      !.act[a].status.isDispatched = TRUE,
                      !.act[a].atStart = View(w)], a)

\* As Submit, but the action is not put into the set of actions in progress.
SubmitOutsideTheSet(w, a, cfg, mode) ==
  ObserveAction(
    RecordIni(ClearFailed([w EXCEPT !.dispatchCount = @ + 1,
                                    !.act[a].cfg = cfg,
                                    !.act[a].mode = mode,
                                    !.act[a].phase = "running",
                                    !.act[a].status.isDispatched = TRUE,
                                    !.act[a].atStart = View(w)], cfg.type), a),
    a, TRUE)

\* The action is dispatched: it gets the store, is counted and is in progress,
\* and the failure kept for its type is cleared; the actionObserver is told.
Submit(w, a, cfg, mode) ==
  ObserveAction(
    RecordIni(ClearFailed([w EXCEPT !.dispatchCount = @ + 1,
                                    !.inProgress = @ \cup {a},
                                    !.act[a].cfg = cfg,
                                    !.act[a].mode = mode,
                                    !.act[a].phase = "running",
                                    !.act[a].status.isDispatched = TRUE,
                                    !.act[a].atStart = View(w)], cfg.type), a),
    a, TRUE)

\* The dispatch is dropped: the action never runs.
Drop(w, a, cfg, mode, why) ==
  [w EXCEPT !.act[a].cfg = cfg,
            !.act[a].mode = mode,
            !.act[a].atStart = View(w),
            !.act[a].phase = why,
            !.act[a].storeException = (why = "refused")]

\* before() is called.
EnterBefore(w, a) == [w EXCEPT !.act[a].nBefore = @ + 1, !.act[a].phase = "before"]

\* As SettleBefore, but a before() that returns leaves its mark in the state.
SettleBeforeWrites(w, a, out) ==
  [w EXCEPT !.act[a].beforeThrew = (out = "throw"),
            !.act[a].thrown = IF out = "throw" THEN w.act[a].cfg.throws ELSE @,
            !.act[a].status.hasFinishedMethodBefore = (out = "ok"),
            !.state = IF out = "ok" THEN Reduced(w.state, a) ELSE @]

\* before() returns (out = "ok") or throws (out = "throw").
SettleBefore(w, a, out) ==
  [w EXCEPT !.act[a].beforeThrew = (out = "throw"),
            !.act[a].thrown = IF out = "throw" THEN w.act[a].cfg.throws ELSE @,
            !.act[a].status.hasFinishedMethodBefore = (out = "ok")]

\* reduce() is called.
EnterReduce(w, a) ==
  [w EXCEPT !.act[a].nReduce = @ + 1,
            !.act[a].reduceThrew = FALSE,
            !.act[a].phase = "reduce"]

\* The error an attempt of the reducer throws: each attempt of an action that
\* retries throws an error of its own.
AttemptError(x) ==
  IF x.cfg.retryOn THEN x.cfg.throws \o ToString(x.nReduce) ELSE x.cfg.throws

\* reduce() returns a new state or a function (out = "value"), returns null
\* (out = "null"), or throws (out = "throw").
SettleReduce(w, a, out) ==
  [w EXCEPT !.act[a].reduceThrew = (out = "throw"),
            !.act[a].nReduceThrew = IF out = "throw" THEN @ + 1 ELSE @,
            !.act[a].thrown = IF out = "throw" THEN AttemptError(w.act[a]) ELSE @,
            !.act[a].result = out,
            !.act[a].status.hasFinishedMethodReduce = (out # "throw")]

\* As WaitCondition, but the promise is always left pending.
WaitConditionAlwaysPending(w, cond, timeoutMillis) ==
  [w EXCEPT !.waiter = [NoWaiter EXCEPT !.status = "pending",
                                        !.cond = cond,
                                        !.timeoutMillis = timeoutMillis,
                                        !.calledState = w.state]]

\* store.waitCondition(cond, timeoutMillis): the promise resolves at once if
\* the condition is true of the state, and is pending otherwise.
WaitCondition(w, cond, timeoutMillis) ==
  LET called == [NoWaiter EXCEPT !.cond = cond,
                                 !.timeoutMillis = timeoutMillis,
                                 !.calledState = w.state]
  IN
  IF CondHolds(cond, w.state)
  THEN [w EXCEPT !.waiter = [called EXCEPT !.status = "resolved", !.resolvedState = w.state]]
  ELSE [w EXCEPT !.waiter = [called EXCEPT !.status = "pending"]]

\* The state changed: a pending condition is checked against the new state,
\* and its promise resolves with the action that made the change.
NotifyWaiter(w, a) ==
  IF w.waiter.status = "pending" /\ CondHolds(w.waiter.cond, w.state)
  THEN [w EXCEPT !.waiter.status = "resolved",
                 !.waiter.resolvedState = w.state,
                 !.waiter.trigger = {a}]
  ELSE w

\* As StillAwaited, but the given actions count only while all of them are
\* in progress.
StillAwaitedTogether(w, actions) ==
  IF actions = {} THEN w.inProgress
  ELSE IF actions \subseteq w.inProgress THEN actions ELSE {}

\* The actions a waitAllActions(actions) call still waits for: all the actions
\* in progress if the list is empty, and else those of the list in progress.
StillAwaited(w, actions) ==
  IF actions = {} THEN w.inProgress ELSE actions \cap w.inProgress

\* store.waitAllActions(actions, completeImmediately): the promise is pending
\* while an action it waits for is in progress.  If there is none when it is
\* called, it completes at once with completeImmediately and is an error
\* without.
WaitAllActions(w, actions, completeImmediately) ==
  LET called == [NoActionWaiter EXCEPT !.kind = "all",
                                       !.actions = actions,
                                       !.calledRunning = w.inProgress,
                                       !.calledCompleted = Completed(w)]
  IN
  IF StillAwaited(w, actions) # {}
  THEN [w EXCEPT !.actionWaiter = [called EXCEPT !.status = "pending"]]
  ELSE IF completeImmediately
  THEN [w EXCEPT !.actionWaiter = [called EXCEPT !.status = "resolved",
                                                 !.resolvedRunning = w.inProgress]]
  ELSE [w EXCEPT !.actionWaiter = [called EXCEPT !.status = "error",
                                                 !.error = ThrownError]]

\* store.waitAllActions(actions, completeImmediately, timeoutMillis).
WaitAllActionsFor(w, actions, completeImmediately, timeoutMillis) ==
  [WaitAllActions(w, actions, completeImmediately)
     EXCEPT !.actionWaiter.timeoutMillis = timeoutMillis]

\* store.waitActionType(type, completeImmediately): the promise is pending
\* while an action of the type is in progress.  If there is none when it is
\* called, it completes at once with completeImmediately and is an error
\* without.
WaitActionType(w, type, completeImmediately) ==
  LET called == [NoActionWaiter EXCEPT !.kind = "type",
                                       !.types = {type},
                                       !.calledRunning = w.inProgress,
                                       !.calledCompleted = Completed(w)]
  IN
  IF \E a \in w.inProgress : w.act[a].cfg.type = type
  THEN [w EXCEPT !.actionWaiter = [called EXCEPT !.status = "pending"]]
  ELSE IF completeImmediately
  THEN [w EXCEPT !.actionWaiter = [called EXCEPT !.status = "resolved",
                                                 !.resolvedRunning = w.inProgress]]
  ELSE [w EXCEPT !.actionWaiter = [called EXCEPT !.status = "error",
                                                 !.error = ThrownError]]

\* As WaitAnyActionTypeFinishes, but the promise completes at once if no
\* action of the types is in progress.
WaitAnyActionTypeFinishesIfRunning(w, types) ==
  LET called == [NoActionWaiter EXCEPT !.kind = "anyTypeFinishes",
                                       !.types = types,
                                       !.calledRunning = w.inProgress,
                                       !.calledCompleted = Completed(w)]
  IN
  IF \E a \in w.inProgress : w.act[a].cfg.type \in types
  THEN [w EXCEPT !.actionWaiter = [called EXCEPT !.status = "pending"]]
  ELSE [w EXCEPT !.actionWaiter = [called EXCEPT !.status = "resolved",
                                                 !.resolvedRunning = w.inProgress]]

\* store.waitAnyActionTypeFinishes(types): the promise is pending, whatever
\* is in progress.
WaitAnyActionTypeFinishes(w, types) ==
  [w EXCEPT !.actionWaiter = [NoActionWaiter EXCEPT !.status = "pending",
                                                    !.kind = "anyTypeFinishes",
                                                    !.types = types,
                                                    !.calledRunning = w.inProgress,
                                                    !.calledCompleted = Completed(w)]]

\* The action a has finished dispatching and left the set of actions in
\* progress: a pending wait on that set is checked, and its promise resolves
\* with the set and with a, the action that triggered it.
NotifyActionWaiter(w, a) ==
  LET aw == w.actionWaiter
      met == IF aw.kind = "all" THEN StillAwaited(w, aw.actions) = {}
             ELSE IF aw.kind = "type"
             THEN ~ \E b \in w.inProgress : w.act[b].cfg.type \in aw.types
             ELSE w.act[a].cfg.type \in aw.types
  IN
  IF aw.status = "pending" /\ met
  THEN [w EXCEPT !.actionWaiter.status = "resolved",
                 !.actionWaiter.resolvedRunning = w.inProgress,
                 !.actionWaiter.trigger = {a}]
  ELSE w

\* As HasTimeout, but a timeout of 0 counts as a timeout.
HasTimeoutFromZero(timeoutMillis) == timeoutMillis >= 0

\* A timeoutMillis of 0 or -1 disables the timeout.
HasTimeout(timeoutMillis) == timeoutMillis > 0

\* As ApplyResult, but the result is computed from the state the action was
\* dispatched with.
ApplyResultStale(w, a) ==
  LET w1 == [w EXCEPT !.act[a].preApply = w.state] IN
  IF w.act[a].result = "value"
  THEN NotifyWaiter([w1 EXCEPT !.state = Reduced(w.act[a].atStart.state, a),
                               !.act[a].nApplied = @ + 1], a)
  ELSE w1

\* As IsOld, but a newer action counts only while it is running.
IsOldWhileNewerRuns(w, a) ==
  /\ w.act[a].cfg.ignoreOld
  /\ \E b \in w.inProgress : b > a /\ w.act[b].cfg.type = w.act[a].cfg.type

\* ignoreOld: the action is not the most recent one dispatched of its type.
IsOld(w, a) ==
  /\ w.act[a].cfg.ignoreOld
  /\ \E b \in Acts : /\ b > a
                      /\ w.act[b].status.isDispatched
                      /\ w.act[b].cfg.type = w.act[a].cfg.type

\* The reducer's result replaces the store state; null leaves it as it is,
\* and the result of an action that ignoreOld makes old is discarded.
\* The stateObserver is told right then.
ApplyResult(w, a) ==
  LET w1 == [w EXCEPT !.act[a].preApply = w.state]
      w2 == IF w.act[a].result = "value" /\ ~ IsOld(w, a)
            THEN NotifyWaiter([w1 EXCEPT !.state = Reduced(w.state, a),
                                         !.act[a].nApplied = @ + 1], a)
            ELSE w1
  IN ObserveState(w2, a, w.state, NoError)

\* As Throw, but the status is left as it was.
ThrowKeepsStatus(w, a) == [w EXCEPT !.act[a].error = w.act[a].thrown]

\* The error is thrown by before() or reduce(): the status records it.
Throw(w, a) ==
  [w EXCEPT !.act[a].error = w.act[a].thrown,
            !.act[a].status.originalError = w.act[a].thrown,
            !.act[a].status.wrappedError = w.act[a].thrown]

\* As WrapError, but a wrapError() that returns nothing disables the error.
WrapErrorNothingDisables(cfg, e) ==
  IF cfg.wrapError = "wrap" THEN WrappedError
  ELSE IF cfg.wrapError \in {"null", "undefined"} THEN NoError
  ELSE e

\* The error that is left of an error once the action's wrapError() has run:
\* another error, or none when wrapError() returns null to disable it.  A
\* wrapError() that returns the error, or returns nothing, keeps the error.
WrapError(cfg, e) ==
  IF cfg.wrapError = "wrap" THEN WrappedError
  ELSE IF cfg.wrapError = "null" THEN NoError
  ELSE e

\* As RunWrapError, but an error the action disables is wiped off the status.
RunWrapErrorForgets(w, a) ==
  LET x == w.act[a]
      out == WrapError(x.cfg, x.error)
  IN
  IF x.cfg.wrapError = "none" THEN w
  ELSE [w EXCEPT !.act[a].error = out,
                 !.act[a].errLog = Append(@, [fn |-> "wrapError", in |-> x.error, out |-> out]),
                 !.act[a].status.wrappedError = out,
                 !.act[a].status.originalError = IF out = NoError THEN NoError ELSE @]

\* The action's wrapError(), if the action has one, gets the error; what it
\* returns is the error from then on, and the status keeps it as wrappedError.
RunWrapError(w, a) ==
  LET x == w.act[a]
      out == WrapError(x.cfg, x.error)
  IN
  IF x.cfg.wrapError = "none" THEN w
  ELSE [w EXCEPT !.act[a].error = out,
                 !.act[a].errLog = Append(@, [fn |-> "wrapError", in |-> x.error, out |-> out]),
                 !.act[a].status.wrappedError = out]

\* What globalWrapError returns for an error: a UserException made of it (a
\* UserException is returned as it is), or null to disable it.
GlobalWrapError(cfg, e) ==
  IF cfg.globalWrapError = "null" THEN NoError
  ELSE IF cfg.globalWrapError = "wrap" /\ ~ IsUserException(e) THEN GlobalUserException
  ELSE e

\* globalWrapError, if the store has one, gets the error that wrapError left.
RunGlobalWrapError(w, a) ==
  LET x == w.act[a]
      out == GlobalWrapError(store, x.error)
  IN
  IF store.globalWrapError = "none" \/ x.error = NoError THEN w
  ELSE [w EXCEPT !.act[a].error = out,
                 !.act[a].errLog = Append(@, [fn |-> "globalWrapError", in |-> x.error, out |-> out])]

\* As Enqueue, but whatever before() or reduce() threw is queued.
EnqueueThrown(w, a) ==
  IF IsUserException(w.act[a].cfg.throws)
  THEN [w EXCEPT !.userExceptionsQueue =
                   Append(@, [error |-> w.act[a].cfg.throws, action |-> a])]
  ELSE w

\* A UserException goes into the store's error queue.
Enqueue(w, a) ==
  IF IsUserException(w.act[a].error)
  THEN [w EXCEPT !.userExceptionsQueue =
                   Append(@, [error |-> w.act[a].error, action |-> a])]
  ELSE w

\* The dispatcher throws the error on.
Rethrow(w, a) ==
  LET e == w.act[a].error IN
  [w EXCEPT !.act[a].rethrown = e,
            !.act[a].errLog = Append(@, [fn |-> "rethrow", in |-> e, out |-> e])]

\* As RunErrorObserver, but what the observer returns is not looked at.
RunErrorObserverIgnored(w, a) ==
  LET x == w.act[a] IN
  IF x.error = NoError THEN w
  ELSE IF store.errorObserver = "none"
  THEN IF IsUserException(x.error) THEN w ELSE Rethrow(w, a)
  ELSE Rethrow([w EXCEPT !.act[a].errLog =
                  Append(@, [fn |-> "errorObserver", in |-> x.error,
                             out |-> store.errorObserver])], a)

\* errorObserver, if the store has one, gets the error that survived: the
\* error is thrown on if it returns true and swallowed if it returns false.
\* Without an errorObserver the error is thrown on, but a UserException is
\* caught by the store.
RunErrorObserver(w, a) ==
  LET x == w.act[a]
      w1 == [w EXCEPT !.act[a].errLog =
               Append(@, [fn |-> "errorObserver", in |-> x.error,
                          out |-> store.errorObserver])]
  IN
  IF x.error = NoError THEN w
  ELSE IF store.errorObserver = "none"
  THEN IF IsUserException(x.error) THEN w ELSE Rethrow(w, a)
  ELSE IF store.errorObserver = "true" THEN Rethrow(w1, a)
  ELSE w1

\* As ProcessError, but the errorObserver is the first to get the error.
ProcessErrorObservesFirst(w, a) ==
  Enqueue(RunGlobalWrapError(RunWrapError(RunErrorObserver(Throw(w, a), a), a), a), a)

\* What the store does with an error thrown by before() or reduce().
ProcessError(w, a) ==
  RunErrorObserver(Enqueue(RunGlobalWrapError(RunWrapError(Throw(w, a), a), a), a), a)

\* As Fail, but what the action had built is installed all the same.
FailApplies(w, a) ==
  ProcessError([w EXCEPT !.act[a].preApply = w.state,
                         !.state = Reduced(w.state, a)], a)

\* As Fail, but the status is built anew around the error.
FailResetsStatus(w, a) ==
  ProcessError([w EXCEPT !.act[a].preApply = w.state,
                         !.act[a].status = [InitialStatus EXCEPT !.isDispatched = TRUE]], a)

\* As Fail, but the stateObserver is told once the error was handled, and
\* gets the error the handlers left.
FailObservesLast(w, a) ==
  LET w1 == RecordFailure(ProcessError([w EXCEPT !.act[a].preApply = w.state], a), a)
  IN ObserveState(w1, a, w.state, w1.act[a].error)

\* before() or reduce() threw: nothing is applied, the stateObserver is told of
\* the error as it was thrown, the error is handled, and the store keeps the
\* failure for isFailed and exceptionFor.
Fail(w, a) ==
  RecordFailure(
    ProcessError(
      ObserveState([w EXCEPT !.act[a].preApply = w.state], a, w.state, w.act[a].thrown),
      a),
    a)

\* As CallAfter, but an error of after() fails the action and is thrown on.
CallAfterPropagates(w, a) ==
  LET w1 == [w EXCEPT !.act[a].nAfter = @ + 1,
                      !.act[a].afterInOrder = @ /\ BodyIsOver(w.act[a])]
  IN
  IF w.act[a].cfg.afterThrows
  THEN [w1 EXCEPT !.act[a].afterThrew = TRUE,
                  !.act[a].status.originalError = AfterError,
                  !.act[a].rethrown = AfterError]
  ELSE [w1 EXCEPT !.act[a].status.hasFinishedMethodAfter = TRUE]

\* after() is called.  It returns, or it throws an error that is swallowed
\* and given to Store.log().
CallAfter(w, a) ==
  LET w1 == [w EXCEPT !.act[a].nAfter = @ + 1,
                      !.act[a].afterInOrder = @ /\ BodyIsOver(w.act[a])]
  IN
  IF w.act[a].cfg.afterThrows
  THEN [w1 EXCEPT !.act[a].afterThrew = TRUE,
                  !.logged = @ \cup {a}]
  ELSE [w1 EXCEPT !.act[a].status.hasFinishedMethodAfter = TRUE]

\* As Complete, but the action stays in the set of actions in progress.
CompleteStaysInProgress(w, a) ==
  [w EXCEPT !.act[a].phase = "done",
            !.act[a].status.isCompleted = TRUE,
            !.act[a].doneAt = Cardinality(Completed(w)) + 1,
            !.act[a].atEnd = w.state]

\* The action has finished dispatching; the actionObserver is told.
Complete(w, a) ==
  ObserveAction(
    RecordEnd([w EXCEPT !.inProgress = @ \ {a},
                        !.act[a].phase = "done",
                        !.act[a].status.isCompleted = TRUE,
                        !.act[a].doneAt = Cardinality(Completed(w)) + 1,
                        !.act[a].atEnd = w.state], a),
    a, FALSE)

\* The promise dispatchAndWait returned resolves with the action's status.
ResolvePromise(w, a) ==
  IF w.act[a].mode = "wait"
  THEN [w EXCEPT !.act[a].resolved = TRUE,
                 !.act[a].resolvedStatus = w.act[a].status,
                 !.act[a].resolvedState = w.state]
  ELSE w

\* As Finish, but the waiters are told before after() and the completion.
FinishResolvesFirst(w, a) == Complete(CallAfter(ResolvePromise(w, a), a), a)

\* As NotifyBatch, but the promise resolves once one action of the list has
\* completed.
NotifyBatchOnFirst(w) ==
  LET given == w.batch.actions IN
  IF /\ w.batch.status = "pending"
     /\ \E i \in 1..Len(given) : w.act[given[i]].status.isCompleted
  THEN [w EXCEPT !.batch.status = "resolved",
                 !.batch.result = given,
                 !.batch.resolvedState = w.state,
                 !.batch.resolvedCompleted = Completed(w)]
  ELSE w

\* The promise of dispatchAndWaitAll resolves, with the list of actions it
\* was given, when all the actions of the list have finished.
NotifyBatch(w) ==
  LET given == w.batch.actions IN
  IF /\ w.batch.status = "pending"
     /\ \A i \in 1..Len(given) : w.act[given[i]].status.isCompleted
  THEN [w EXCEPT !.batch.status = "resolved",
                 !.batch.result = given,
                 !.batch.resolvedState = w.state,
                 !.batch.resolvedCompleted = Completed(w)]
  ELSE w

\* Those that wait for the end of the action are told: its dispatchAndWait,
\* a wait on the set of actions in progress, and a dispatchAndWaitAll.
TellWaiters(w, a) == NotifyBatch(NotifyActionWaiter(ResolvePromise(w, a), a))

\* after() runs, then the action completes and its waiters are told.
Finish(w, a) == TellWaiters(Complete(CallAfter(w, a), a), a)

\* As CanRetry, but one more retry is allowed.
CanRetryOnceMore(x) == x.cfg.retryOn /\ x.nReduce <= x.cfg.maxRetries + 1

\* A failed attempt of the reducer is retried while retries are left.
CanRetry(x) == x.cfg.retryOn /\ x.nReduce <= x.cfg.maxRetries

\* As AfterReduce, but a reducer that threw ends the action without after().
AfterReduceNoFinally(w, a) ==
  IF ~ w.act[a].reduceThrew THEN Finish(ApplyResult(w, a), a)
  ELSE IF CanRetry(w.act[a]) THEN [w EXCEPT !.act[a].phase = "retryWait"]
  ELSE ResolvePromise(Complete(Fail(w, a), a), a)

\* What follows the end of reduce().
AfterReduce(w, a) ==
  IF ~ w.act[a].reduceThrew THEN Finish(ApplyResult(w, a), a)
  ELSE IF CanRetry(w.act[a]) THEN [w EXCEPT !.act[a].phase = "retryWait"]
  ELSE Finish(Fail(w, a), a)

\* reduce() is called; a sync reducer is done in the same turn.
RunReduce(w, a, rOut) ==
  LET w1 == EnterReduce(w, a) IN
  IF ReduceSuspends(w.act[a].cfg) THEN w1
  ELSE AfterReduce(SettleReduce(w1, a, rOut), a)

\* As AfterBefore, but an action whose before() threw goes no further: it
\* fails without its after() and without completing.
AfterBeforeStopsOnThrow(w, a, rOut) ==
  IF w.act[a].beforeThrew THEN [Fail(w, a) EXCEPT !.act[a].phase = "failed"]
  ELSE RunReduce(w, a, rOut)

\* As AfterBefore, but the reducer runs whatever before() did.
AfterBeforeAlwaysReduces(w, a, rOut) == RunReduce(w, a, rOut)

\* As AfterBefore, but an action that retries waits for a retry when before()
\* threw.
AfterBeforeRetries(w, a, rOut) ==
  IF w.act[a].beforeThrew
  THEN IF CanRetry(w.act[a]) THEN [w EXCEPT !.act[a].phase = "retryWait"]
       ELSE Finish(Fail(w, a), a)
  ELSE RunReduce(w, a, rOut)

\* What follows the end of before(): reduce() only if before() did not throw.
AfterBefore(w, a, rOut) ==
  IF w.act[a].beforeThrew THEN Finish(Fail(w, a), a)
  ELSE RunReduce(w, a, rOut)

\* before() is called; a sync before() is done in the same turn.
RunBefore(w, a, bOut, rOut) ==
  LET w1 == EnterBefore(w, a) IN
  IF w.act[a].cfg.beforeAsync THEN w1
  ELSE AfterBefore(SettleBefore(w1, a, bOut), a, rOut)

\* state.user === null: no LogIn has put a user into the state.
UserIsNull(w) ==
  ~ \E i \in 1..Len(w.state) : w.act[w.state[i]].cfg.type = "LogIn"

\* As AbortDispatch, but the state is not looked at.
AbortDispatchWithoutState(w, cfg) == cfg.abortDispatch = "noUser"

\* What the action's abortDispatch() returns: true, for an action that
\* overrides it, if there is no user.
AbortDispatch(w, cfg) == cfg.abortDispatch = "noUser" /\ UserIsNull(w)

\* store.dispatch(action).
DoDispatch(w, a, cfg, mode, bOut, rOut) ==
  IF AbortDispatch(w, cfg) THEN Drop(w, a, cfg, mode, "aborted")
  ELSE IF IsReentry(w, cfg) THEN Drop(w, a, cfg, mode, "aborted")
  ELSE RunBefore(Submit(w, a, cfg, mode), a, bOut, rOut)

\* As DoDispatchSync, but the StoreException comes once the action was
\* submitted, and the action is left in progress.
DoDispatchSyncAfterSubmit(w, a, cfg, bOut, rOut) ==
  IF IsAsync(cfg)
  THEN [Submit(w, a, cfg, "sync") EXCEPT !.act[a].phase = "refused",
                                         !.act[a].storeException = TRUE]
  ELSE DoDispatch(w, a, cfg, "sync", bOut, rOut)

\* store.dispatchSync(action): dispatch, but a StoreException if the action
\* is async.
DoDispatchSync(w, a, cfg, bOut, rOut) ==
  IF IsAsync(cfg) THEN Drop(w, a, cfg, "sync", "refused")
  ELSE DoDispatch(w, a, cfg, "sync", bOut, rOut)

\* The actions of a list are dispatched one after the other, from the i-th
\* on; the action objects of the list are first, first + 1, ...
RECURSIVE DispatchEach(_, _, _, _, _)
DispatchEach(w, first, items, i, mode) ==
  IF i > Len(items) THEN w
  ELSE DispatchEach(DoDispatch(w, first + i - 1, items[i].cfg, mode,
                               items[i].bOut, items[i].rOut),
                    first, items, i + 1, mode)

\* The actions of a list are dispatched from the i-th down to the first.
RECURSIVE DispatchEachBackwards(_, _, _, _, _)
DispatchEachBackwards(w, first, items, i, mode) ==
  IF i < 1 THEN w
  ELSE DispatchEachBackwards(DoDispatch(w, first + i - 1, items[i].cfg, mode,
                                        items[i].bOut, items[i].rOut),
                             first, items, i - 1, mode)

\* As DoDispatchAll, but the last action of the list is dispatched first.
DoDispatchAllBackwards(w, first, items) ==
  DispatchEachBackwards(w, first, items, Len(items), "all")

\* store.dispatchAll(actions): the same as calling dispatch for each action
\* of the list, in the order of the list.
DoDispatchAll(w, first, items) == DispatchEach(w, first, items, 1, "all")

\* store.dispatchAndWaitAll(actions): the actions are dispatched like
\* dispatchAll does, and the promise returned resolves when all have finished.
DoDispatchAndWaitAll(w, first, items) ==
  DispatchEach([w EXCEPT !.batch = [NoBatch EXCEPT
                   !.status = "pending",
                   !.actions = [i \in 1..Len(items) |-> first + i - 1]]],
               first, items, 1, "waitAll")

\* The reducer of the action a calls this.dispatch(b).
DispatchFromReducer(w, a, b, cfg, bOut, rOut) ==
  LET w1 == DoDispatch(w, b, cfg, "dispatch", bOut, rOut) IN
  [w1 EXCEPT !.act[b].parent = a, !.act[a].nDispatched = @ + 1]

BeforeOutcomes == {"ok", "throw"}
ReduceOutcomes == {"value", "null", "throw"}

\* The lists of n actions that may be given to dispatchAll, each action with
\* what its reduce() will do; their before() returns.
Items(n) ==
  [ 1..n -> [ cfg : ClassesOf(scenario), bOut : {"ok"}, rOut : ReduceOutcomes ] ]

\* store.clearExceptionFor(actionType): the failure kept for the type is
\* cleared.
ClearExceptionFor(w, type) ==
  LET w1 == ClearFailed(w, type) IN
  [w1 EXCEPT !.act = [ a \in Acts |->
     IF w.act[a].cfg.type = type /\ IsCompletedFailed(w.act[a].status)
     THEN [w.act[a] EXCEPT !.cleared = TRUE]
     ELSE w.act[a] ]]

\* store.isFailed(actionType): an action of the type just failed.
IsFailed(type) == \E f \in failed : f.type = type

\* store.exceptionFor(actionType): the error that made the action fail.
ExceptionFor(type) ==
  IF IsFailed(type) THEN (CHOOSE f \in failed : f.type = type).error ELSE NoError

\* ------------------------------------------------------------- todo list
\* The characters of the texts: a space, a letter in both cases, and a second
\* letter.
Chars == {" ", "a", "A", "b"}

\* The texts AddTodoAction may be given: strings of up to MaxTextLen characters.
Texts == UNION { [1..n -> Chars] : n \in 0..MaxTextLen }

\* String.toUpperCase() and String.toLowerCase(), character by character.
ToUpperCase(t) ==
  [ i \in 1..Len(t) |-> IF t[i] = "a" THEN "A" ELSE IF t[i] = "b" THEN "B" ELSE t[i] ]

ToLowerCase(t) ==
  [ i \in 1..Len(t) |-> IF t[i] = "A" THEN "a" ELSE IF t[i] = "B" THEN "b" ELSE t[i] ]

\* String.trim(): the text without the spaces at its start and at its end.
RECURSIVE TrimStart(_)
TrimStart(t) == IF t # <<>> /\ Head(t) = " " THEN TrimStart(Tail(t)) ELSE t

RECURSIVE TrimEnd(_)
TrimEnd(t) ==
  IF t # <<>> /\ t[Len(t)] = " " THEN TrimEnd(SubSeq(t, 1, Len(t) - 1)) ELSE t

Trim(t) == TrimEnd(TrimStart(t))

\* text.charAt(0).toUpperCase() + text.slice(1).
Capitalized(t) ==
  IF t = <<>> THEN <<>> ELSE ToUpperCase(SubSeq(t, 1, 1)) \o SubSeq(t, 2, Len(t))

\* new TodoItem(text).
TodoItem(text) == [ text |-> text, completed |-> FALSE ]

\* As IfExists, but only an item with exactly the text counts.
IfExistsExactly(items, text) ==
  \E i \in 1..Len(items) : items[i].text = text

\* TodoList.ifExists(text): some item has the text, whatever the case.
IfExists(items, text) ==
  \E i \in 1..Len(items) : ToLowerCase(items[i].text) = ToLowerCase(text)

\* TodoList.addTodo(newItem): the item is put first, unless its text is empty
\* or exists already.
AddTodo(items, newItem) ==
  IF newItem.text = <<>> \/ IfExists(items, newItem.text) THEN items
  ELSE <<newItem>> \o items

\* TodoList.addTodoFromText(text): the text is trimmed and capitalized.
AddTodoFromText(items, text) == AddTodo(items, TodoItem(Capitalized(Trim(text))))

\* item.toggleCompleted().
ToggleCompleted(item) == [ text |-> item.text, completed |-> ~ item.completed ]

\* TodoList.removeTodo(item): the list without the item.  Items are compared
\* as objects: i is the place of the object in the list, 0 for an object that
\* is not in the list.
RemoveTodo(items, i) ==
  LET kept == SelectSeq([ j \in 1..Len(items) |-> j ], LAMBDA j : j # i) IN
  [ k \in 1..Len(kept) |-> items[kept[k]] ]

\* TodoList.removeCompleted(): the list without its completed items.
RemoveCompleted(items) == SelectSeq(items, LAMBDA item : ~ item.completed)

\* TodoList.toggleTodo(item): the item, an object at place i of the list or
\* not in it (i = 0), is replaced by item.toggleCompleted().
ToggleTodo(items, i) ==
  [ j \in 1..Len(items) |-> IF j = i THEN ToggleCompleted(items[j]) ELSE items[j] ]

\* The texts of the todo items the calls are given: empty, blank, in both
\* cases, and with spaces around.
ItemTexts ==
  { <<>>, <<" ">>, <<"a">>, <<"A">>, <<"b">>, <<" ", "a">>, <<"a", " ">>, <<"a", "b">> }

\* The state after a call on the todo list: the list the call returned, the
\* text it was given, if any, and the list it was called on.
AfterCall(t, text, list) ==
  [t EXCEPT !.todoList = list, !.text = text, !.prevList = t.todoList]

\* The status of a sync action that has completed, with the error its
\* reducer threw if it threw one.
FinalStatus(error) ==
  [ InitialStatus EXCEPT !.isDispatched = TRUE,
                         !.hasFinishedMethodBefore = TRUE,
                         !.hasFinishedMethodReduce = (error = NoError),
                         !.hasFinishedMethodAfter = TRUE,
                         !.isCompleted = TRUE,
                         !.originalError = error,
                         !.wrappedError = error ]

\* dispatchAndWait(new AddTodoAction(text)): the reducer throws a
\* UserException if ifExists(text), and else returns the state with the list
\* that addTodoFromText(text) gives.
AddTodoAction(t, text) ==
  IF IfExists(t.todoList, text)
  THEN [ todoList |-> t.todoList, text |-> text, prevList |-> t.todoList,
         status |-> FinalStatus(UserException) ]
  ELSE [ todoList |-> AddTodoFromText(t.todoList, text), text |-> text,
         prevList |-> t.todoList, status |-> FinalStatus(NoError) ]

\* ------------------------------------------------------------- persistor
\* The default throttle of the persistor, in milliseconds.
DefaultThrottleMillis == 2000

\* The step of the clock of the model: half the throttle.
ClockStep == DefaultThrottleMillis \div 2

\* The store states of the persistor scenario: State.initialState or the state
\* that was saved, with the number of changes made to it since; and null.
InitialState == [ from |-> "initialState", changes |-> 0 ]

SavedState == [ from |-> "saved", changes |-> 0 ]

NullState == [ from |-> "null", changes |-> 0 ]

\* What readState() does: it returns null, returns the saved state, or fails.
ReadOutcomes == {"null", "valid", "error"}

\* A store created without a persistor.
NoPersistor ==
  [ phase |-> "none",        \* "reading", "deleting", "savingInitial", "ready"
    calls |-> <<>>,          \* the calls of the persistor's functions
    state |-> InitialState,  \* the store state
    lastPersistedState |-> NullState,
    read |-> "none",         \* what readState() did
    running |-> 0,           \* the persistDifference() calls that have not returned
    due |-> FALSE,           \* a persistDifference() call is scheduled
    forced |-> FALSE,        \* a PersistAction waits for the call that is running
    lastStartedAt |-> -1,    \* when the last persistDifference() call started
    now |-> 0,               \* the clock, in milliseconds
    nPersistActions |-> 0 ]

\* A function of the persistor is called.
Called(p, fn, lastPersistedState, newState, byPersistAction) ==
  [p EXCEPT !.calls = Append(@, [ fn |-> fn,
                                  lastPersistedState |-> lastPersistedState,
                                  newState |-> newState,
                                  byPersistAction |-> byPersistAction,
                                  startedAt |-> p.now,
                                  endedAt |-> -1 ])]

\* The promise of the last call of the persistor completes.
Returned(p) == [p EXCEPT !.calls[Len(p.calls)].endedAt = p.now]

\* The store right after createStore was given a persistor: readState() was
\* called.
CreatedWithPersistor ==
  [Called(NoPersistor, "readState", NullState, NullState, FALSE) EXCEPT !.phase = "reading"]

\* As AfterReadState, but a state that cannot be read is not deleted.
AfterReadStateKeepsCorrupted(p, out) ==
  LET p1 == [Returned(p) EXCEPT !.read = out] IN
  IF out \in {"null", "error"}
  THEN [Called(p1, "saveInitialState", NullState, p1.state, FALSE)
          EXCEPT !.phase = "savingInitial"]
  ELSE [p1 EXCEPT !.state = SavedState, !.lastPersistedState = SavedState,
                  !.phase = "ready"]

\* readState() is over.  With no state saved yet, saveInitialState() is called
\* with the initial state; if reading failed, deleteState() is called; a valid
\* state becomes the store state.
AfterReadState(p, out) ==
  LET p1 == [Returned(p) EXCEPT !.read = out] IN
  IF out = "null"
  THEN [Called(p1, "saveInitialState", NullState, p1.state, FALSE)
          EXCEPT !.phase = "savingInitial"]
  ELSE IF out = "error"
  THEN [Called(p1, "deleteState", NullState, NullState, FALSE) EXCEPT !.phase = "deleting"]
  ELSE [p1 EXCEPT !.state = SavedState, !.lastPersistedState = SavedState,
                  !.phase = "ready"]

\* deleteState() is over: saveInitialState() is called with the initial state.
AfterDeleteState(p) ==
  [Called(Returned(p), "saveInitialState", NullState, p.state, FALSE)
     EXCEPT !.phase = "savingInitial"]

\* saveInitialState() is over: from this moment on state changes are persisted.
AfterSaveInitialState(p) ==
  [Returned(p) EXCEPT !.lastPersistedState = p.state, !.phase = "ready"]

\* The throttle interval since the last persistDifference() call started is
\* not over.
Throttled(p) ==
  p.lastStartedAt >= 0 /\ p.now - p.lastStartedAt < DefaultThrottleMillis

\* persistDifference(lastPersistedState, newState) is called with the state the
\* store holds.
StartPersistDifference(p, byPersistAction) ==
  [Called(p, "persistDifference", p.lastPersistedState, p.state, byPersistAction)
     EXCEPT !.running = @ + 1, !.due = FALSE, !.forced = FALSE,
            !.lastStartedAt = p.now]

\* As Schedule, but a call that is running does not hold the next one back.
ScheduleWhileRunning(p) ==
  IF Throttled(p) THEN [p EXCEPT !.due = TRUE]
  ELSE StartPersistDifference(p, FALSE)

\* A call of persistDifference() is scheduled: it is made at once if none was
\* made within the throttle interval and none is running, and later if not.
Schedule(p) ==
  IF p.running > 0 \/ Throttled(p) THEN [p EXCEPT !.due = TRUE]
  ELSE StartPersistDifference(p, FALSE)

\* The state changes, which schedules a call of persistDifference().
ChangeState(p) == Schedule([p EXCEPT !.state.changes = @ + 1])

\* persistDifference() is over: what it was given is the last persisted state.
\* A call that waited for it is made now: that of a PersistAction, or the
\* scheduled one if the throttle interval is over.
AfterPersistDifference(p) ==
  LET p1 == [Returned(p) EXCEPT !.running = @ - 1,
                                !.lastPersistedState = p.calls[Len(p.calls)].newState]
  IN
  IF p1.forced THEN StartPersistDifference(p1, TRUE)
  ELSE IF p1.due /\ ~ Throttled(p1) THEN StartPersistDifference(p1, FALSE)
  ELSE p1

\* dispatch(new PersistAction()): persistDifference() is called right away,
\* whatever the throttle; the call waits for the one that is running.
DispatchPersistAction(p) ==
  LET p1 == [p EXCEPT !.nPersistActions = @ + 1] IN
  IF p.running > 0 THEN [p1 EXCEPT !.forced = TRUE]
  ELSE StartPersistDifference(p1, TRUE)

\* The scheduled call of persistDifference() can be made now.
TimerIsDue(p) == p.phase = "ready" /\ p.due /\ p.running = 0 /\ ~ Throttled(p)

\* store.isWaiting(actionType): an action of the type is being processed.
IsWaiting(type) == \E a \in inProgress : act[a].cfg.type = type

\* The queries of the store that take an action type, and the one that takes
\* none.
Queries == {"isWaiting", "isFailed", "exceptionFor", "actionsInProgress"}

\* What a query of the store answers.
Answer(fn, type) ==
  [ fn |-> fn, type |-> type,
    truth |-> IF fn = "isWaiting" THEN IsWaiting(type)
              ELSE IF fn = "isFailed" THEN IsFailed(type) ELSE FALSE,
    error |-> IF fn = "exceptionFor" THEN ExceptionFor(type) ELSE NoError,
    actions |-> IF fn = "actionsInProgress" THEN inProgress ELSE {} ]

\* ------------------------------------------------------------- turns
\* A store right after createStore, in the scenario sc; store.record is
\* started at once in the dispatch-order scenario.
Start(sc, configs) ==
  /\ scenario = sc
  /\ state = <<>>
  /\ act = [a \in Acts |-> NewAction]
  /\ inProgress = {}
  /\ dispatchCount = 0
  /\ created = 0
  /\ awaiting = {}
  /\ store \in configs
  /\ userExceptionsQueue = <<>>
  /\ logged = {}
  /\ waiter = NoWaiter
  /\ failed = {}
  /\ actionWaiter = NoActionWaiter
  /\ batch = NoBatch
  /\ recording = [on |-> (sc = "order"), result |-> <<>>]
  /\ todo = NoTodo
  /\ observers = [on |-> (sc = "observe"), calls |-> <<>>]
  /\ asked = NoQuery
  /\ persist = IF sc = "persist" THEN CreatedWithPersistor ELSE NoPersistor

Init == Start("core", {PlainStore})

InitReentrant == Start("reentrant", {PlainStore})

InitSync == Start("sync", {PlainStore})

\* A store created with some globalWrapError and errorObserver.
InitErrors == Start("errors", StoreConfigs)

InitRetry == Start("retry", {PlainStore})

InitWait == Start("wait", {PlainStore})

InitWrap == Start("wrap", {PlainStore})

InitFailed == Start("failed", {PlainStore})

InitAbort == Start("abort", {PlainStore})

InitProgress == Start("progress", {PlainStore})

\* A store whose recording was started.
InitOrder == Start("order", {PlainStore})

InitBatch == Start("batch", {PlainStore})

\* The store of the todo list app, with State.initialState.
InitTodo == Start("todo", {PlainStore})

\* A store created with a persistor.
InitPersist == Start("persist", {PlainStore})

\* A store created with an actionObserver, a stateObserver and a
\* globalWrapError.
InitObserve == Start("observe", {WrappingStore})

\* TodoList.empty.
InitTodoList == Start("todolist", {PlainStore})

\* The store of the completion scenario.
InitLive == Start("live", {PlainStore})

\* The store of the scenario of the waits and queries.
InitFrame == Start("frame", {PlainStore})

\* The store of the ignoreOld scenario.
InitIgnoreOld == Start("ignoreOld", {PlainStore})

\* Some code calls store.dispatch(new ...).
Dispatch ==
  /\ created < Limit(scenario)
  /\ \E cfg \in ClassesOf(scenario), bOut \in BeforeOutcomes, rOut \in ReduceOutcomes :
       Install(DoDispatch(World, created + 1, cfg, "dispatch", bOut, rOut))
  /\ created' = created + 1
  /\ UNCHANGED <<awaiting, scenario, store, todo, asked, persist>>

\* The sequential caller does: await store.dispatchAndWait(new ...).
DispatchAndWait ==
  /\ created < Limit(scenario)
  /\ awaiting = {}
  /\ \E cfg \in ClassesOf(scenario), bOut \in BeforeOutcomes, rOut \in ReduceOutcomes :
       Install(DoDispatch(World, created + 1, cfg, "wait", bOut, rOut))
  /\ created' = created + 1
  /\ awaiting' = {created + 1}
  /\ UNCHANGED <<scenario, store, todo, asked, persist>>

\* The sequential caller goes on after the promise it awaits has resolved.
CallerResumes ==
  /\ \E a \in awaiting : act[a].resolved
  /\ awaiting' = {}
  /\ UNCHANGED <<state, act, inProgress, dispatchCount, created, scenario,
                  store, userExceptionsQueue, logged, waiter, failed,
                  actionWaiter, batch, recording, todo, observers, asked, persist>>

\* Some code calls store.dispatchSync(new ...).
DispatchSync ==
  /\ created < Limit(scenario)
  /\ \E cfg \in ClassesOf(scenario), bOut \in BeforeOutcomes, rOut \in ReduceOutcomes :
       Install(DoDispatchSync(World, created + 1, cfg, bOut, rOut))
  /\ created' = created + 1
  /\ UNCHANGED <<awaiting, scenario, store, todo, asked, persist>>

\* The promise of an async before() settles.
BeforeSettles ==
  /\ \E a \in inProgress, bOut \in BeforeOutcomes, rOut \in ReduceOutcomes :
       /\ act[a].phase = "before"
       /\ Install(AfterBefore(SettleBefore(World, a, bOut), a, rOut))
  /\ UNCHANGED <<created, awaiting, scenario, store, todo, asked, persist>>

\* The promise of an async reduce() settles.
ReduceSettles ==
  /\ \E a \in inProgress, rOut \in ReduceOutcomes :
       /\ act[a].phase = "reduce"
       /\ Install(AfterReduce(SettleReduce(World, a, rOut), a))
  /\ UNCHANGED <<created, awaiting, scenario, store, todo, asked, persist>>

\* The retry delay of a failed attempt is over: the reducer runs again.
RetryFires ==
  /\ \E a \in inProgress, rOut \in ReduceOutcomes :
       /\ act[a].phase = "retryWait"
       /\ Install(RunReduce(World, a, rOut))
  /\ UNCHANGED <<created, awaiting, scenario, store, todo, asked, persist>>

\* Some code calls store.clearExceptionFor(actionType).
ClearExceptionForCall ==
  /\ \E cfg \in ClassesOf(scenario) : Install(ClearExceptionFor(World, cfg.type))
  /\ UNCHANGED <<created, awaiting, scenario, store, todo, asked, persist>>

\* Some code calls store.waitAllActions(actions), with actions it dispatched
\* or with the empty list.
WaitAllActionsCall ==
  /\ actionWaiter.status = "none"
  /\ \E actions \in SUBSET { a \in Acts : act[a].status.isDispatched },
        completeImmediately \in BOOLEAN :
       Install(WaitAllActions(World, actions, completeImmediately))
  /\ UNCHANGED <<created, awaiting, scenario, store, todo, asked, persist>>

\* Some code calls store.waitAnyActionTypeFinishes(types).
WaitAnyActionTypeFinishesCall ==
  /\ actionWaiter.status = "none"
  /\ \E types \in SUBSET { cfg.type : cfg \in ClassesOf(scenario) } :
       /\ types # {}
       /\ Install(WaitAnyActionTypeFinishes(World, types))
  /\ UNCHANGED <<created, awaiting, scenario, store, todo, asked, persist>>

\* Some code calls store.dispatchAll([...]).
DispatchAllCall ==
  /\ \E n \in 1..MaxListLen :
       /\ created + n <= Limit(scenario)
       /\ \E items \in Items(n) : Install(DoDispatchAll(World, created + 1, items))
       /\ created' = created + n
  /\ UNCHANGED <<awaiting, scenario, store, todo, asked, persist>>

\* Some code calls store.dispatchAndWaitAll([...]).
DispatchAndWaitAllCall ==
  /\ batch.status = "none"
  /\ \E n \in 1..MaxListLen :
       /\ created + n <= Limit(scenario)
       /\ \E items \in Items(n) : Install(DoDispatchAndWaitAll(World, created + 1, items))
       /\ created' = created + n
  /\ UNCHANGED <<awaiting, scenario, store, todo, asked, persist>>

\* The async reducer of an action in progress dispatches the action it is to
\* dispatch before it finishes; the before() of that action returns.
ReducerDispatches ==
  /\ created < Limit(scenario)
  /\ \E a \in inProgress, cfg \in ReducerClasses, rOut \in ReduceOutcomes :
       /\ act[a].phase = "reduce"
       /\ act[a].nDispatched = 0
       /\ cfg.type = act[a].cfg.dispatches
       /\ Install(DispatchFromReducer(World, a, created + 1, cfg, "ok", rOut))
  /\ created' = created + 1
  /\ UNCHANGED <<awaiting, scenario, store, todo, asked, persist>>

\* A test calls store.dispatchAndWait(new AddTodoAction(text)).
AddTodoActionDispatch ==
  /\ Len(todo.todoList) < MaxTodos
  /\ \E text \in Texts : todo' = AddTodoAction(todo, text)
  /\ UNCHANGED <<state, act, inProgress, dispatchCount, created, awaiting, scenario,
                  store, userExceptionsQueue, logged, waiter, failed,
                  actionWaiter, batch, recording, observers, asked, persist>>

\* All the variables but todo.
NotTodoVars ==
  <<state, act, inProgress, dispatchCount, created, awaiting, scenario, store,
    userExceptionsQueue, logged, waiter, failed, actionWaiter, batch, recording,
    observers, asked, persist>>

\* Some code calls todoList.addTodoFromText(text).
AddTodoFromTextCall ==
  /\ \E text \in ItemTexts :
       LET list == AddTodoFromText(todo.todoList, text) IN
       /\ Len(list) <= MaxTodos
       /\ todo' = AfterCall(todo, text, list)
  /\ UNCHANGED NotTodoVars

\* Some code calls todoList.addTodo(new TodoItem(text, completed)).
AddTodoCall ==
  /\ \E text \in ItemTexts, completed \in BOOLEAN :
       LET list == AddTodo(todo.todoList, [ text |-> text, completed |-> completed ]) IN
       /\ Len(list) <= MaxTodos
       /\ todo' = AfterCall(todo, text, list)
  /\ UNCHANGED NotTodoVars

\* Some code calls todoList.removeTodo(item), with an item of the list or
\* with another object.
RemoveTodoCall ==
  /\ \E i \in 0..Len(todo.todoList) :
       todo' = AfterCall(todo, <<>>, RemoveTodo(todo.todoList, i))
  /\ UNCHANGED NotTodoVars

\* Some code calls todoList.removeCompleted().
RemoveCompletedCall ==
  /\ todo' = AfterCall(todo, <<>>, RemoveCompleted(todo.todoList))
  /\ UNCHANGED NotTodoVars

\* Some code calls todoList.toggleTodo(item), with an item of the list or
\* with another object.
ToggleTodoCall ==
  /\ \E i \in 0..Len(todo.todoList) :
       todo' = AfterCall(todo, <<>>, ToggleTodo(todo.todoList, i))
  /\ UNCHANGED NotTodoVars

\* Some code calls store.waitCondition(cond, timeoutMillis).
WaitConditionCall ==
  /\ waiter.status = "none"
  /\ \E cond \in WaitConds, timeoutMillis \in WaitTimeouts :
       Install(WaitCondition(World, cond, timeoutMillis))
  /\ UNCHANGED <<created, awaiting, scenario, store, todo, asked, persist>>

\* The timeout of a pending waitCondition elapses: the promise rejects with a
\* TimeoutException.
TimeoutElapses ==
  /\ waiter.status = "pending"
  /\ HasTimeout(waiter.timeoutMillis)
  /\ waiter' = [waiter EXCEPT !.status = "timedOut", !.error = "TimeoutException"]
  /\ UNCHANGED <<state, act, inProgress, dispatchCount, created, awaiting, scenario,
                  store, userExceptionsQueue, logged, failed, actionWaiter,
                  batch, recording, todo, observers, asked, persist>>

\* Some code calls store.waitAllActions([]), with the default timeout or with
\* the timeout disabled.
WaitAllActionsForCall ==
  /\ actionWaiter.status = "none"
  /\ \E completeImmediately \in BOOLEAN, timeoutMillis \in {0, DefaultTimeoutMillis} :
       Install(WaitAllActionsFor(World, {}, completeImmediately, timeoutMillis))
  /\ UNCHANGED <<created, awaiting, scenario, store, todo, asked, persist>>

\* The timeout of a pending wait on the actions in progress elapses: the
\* promise rejects with a TimeoutException.
WaitTimeoutElapses ==
  /\ actionWaiter.status = "pending"
  /\ HasTimeout(actionWaiter.timeoutMillis)
  /\ actionWaiter' = [actionWaiter EXCEPT !.status = "timedOut",
                                          !.error = "TimeoutException"]
  /\ UNCHANGED <<state, act, inProgress, dispatchCount, created, awaiting, scenario,
                  store, userExceptionsQueue, logged, waiter, failed,
                  batch, recording, todo, observers, asked, persist>>

\* No wait function and no query was called yet in this run.
NoCallYet ==
  waiter.status = "none" /\ actionWaiter.status = "none" /\ asked.fn = "none"

\* Some code calls one wait function: store.waitCondition(cond).
OneWaitConditionCall ==
  /\ NoCallYet
  /\ Install(WaitCondition(World, [exact |-> FALSE, n |-> 1], DefaultTimeoutMillis))
  /\ UNCHANGED <<created, awaiting, scenario, store, todo, asked, persist>>

\* Some code calls one wait function: store.waitAllActions([]).
OneWaitAllActionsCall ==
  /\ NoCallYet
  /\ \E completeImmediately \in BOOLEAN :
       Install(WaitAllActions(World, {}, completeImmediately))
  /\ UNCHANGED <<created, awaiting, scenario, store, todo, asked, persist>>

\* Some code calls one wait function: store.waitActionType(type).
OneWaitActionTypeCall ==
  /\ NoCallYet
  /\ \E cfg \in ClassesOf(scenario), completeImmediately \in BOOLEAN :
       Install(WaitActionType(World, cfg.type, completeImmediately))
  /\ UNCHANGED <<created, awaiting, scenario, store, todo, asked, persist>>

\* Some code calls one wait function: store.waitAnyActionTypeFinishes([type]).
OneWaitAnyActionTypeFinishesCall ==
  /\ NoCallYet
  /\ \E cfg \in ClassesOf(scenario) :
       Install(WaitAnyActionTypeFinishes(World, {cfg.type}))
  /\ UNCHANGED <<created, awaiting, scenario, store, todo, asked, persist>>

\* Some code calls one query: isWaiting, isFailed or exceptionFor with an
\* action type, or actionsInProgress().
QueryCall ==
  /\ NoCallYet
  /\ \E fn \in Queries, cfg \in ClassesOf(scenario) :
       asked' = Answer(fn, IF fn = "actionsInProgress" THEN "none" ELSE cfg.type)
  /\ UNCHANGED <<state, act, inProgress, dispatchCount, created, awaiting, scenario,
                  store, userExceptionsQueue, logged, waiter, failed, actionWaiter,
                  batch, recording, todo, observers, persist>>

\* All the variables but persist.
StoreVars ==
  <<state, act, inProgress, dispatchCount, created, awaiting, scenario, store,
    userExceptionsQueue, logged, waiter, failed, actionWaiter, batch, recording,
    todo, observers, asked>>

\* The promise of readState() completes.
ReadStateSettles ==
  /\ persist.phase = "reading"
  /\ \E out \in ReadOutcomes : persist' = AfterReadState(persist, out)
  /\ UNCHANGED StoreVars

\* The promise of deleteState() completes.
DeleteStateSettles ==
  /\ persist.phase = "deleting"
  /\ persist' = AfterDeleteState(persist)
  /\ UNCHANGED StoreVars

\* The promise of saveInitialState() completes.
SaveInitialStateSettles ==
  /\ persist.phase = "savingInitial"
  /\ persist' = AfterSaveInitialState(persist)
  /\ UNCHANGED StoreVars

\* An action changes the state of the store that has started up.
StateChanges ==
  /\ persist.phase = "ready"
  /\ persist.state.changes < MaxChanges
  /\ persist' = ChangeState(persist)
  /\ UNCHANGED StoreVars

\* Some code calls dispatch(new PersistAction()).
PersistActionDispatch ==
  /\ persist.phase = "ready"
  /\ persist.nPersistActions < MaxPersistActions
  /\ persist' = DispatchPersistAction(persist)
  /\ UNCHANGED StoreVars

\* The promise of persistDifference() completes.
PersistDifferenceSettles ==
  /\ persist.running > 0
  /\ persist' = AfterPersistDifference(persist)
  /\ UNCHANGED StoreVars

\* The timer of the scheduled persistDifference() call fires.
ThrottleTimerFires ==
  /\ TimerIsDue(persist)
  /\ persist' = StartPersistDifference(persist, FALSE)
  /\ UNCHANGED StoreVars

\* Time passes; a timer that is due fires first.
ClockTicks ==
  /\ persist.phase # "none"
  /\ persist.now < MaxTicks * ClockStep
  /\ ~ TimerIsDue(persist)
  /\ persist' = [persist EXCEPT !.now = @ + ClockStep]
  /\ UNCHANGED StoreVars

Next ==
  \/ Dispatch
  \/ DispatchAndWait
  \/ CallerResumes
  \/ BeforeSettles
  \/ ReduceSettles

NextReentrant ==
  \/ Dispatch
  \/ BeforeSettles
  \/ ReduceSettles

NextSync ==
  \/ Dispatch
  \/ DispatchSync
  \/ BeforeSettles
  \/ ReduceSettles
  \/ RetryFires

Spec == Init /\ [][Next]_vars

SpecReentrant == InitReentrant /\ [][NextReentrant]_vars

SpecSync == InitSync /\ [][NextSync]_vars

NextErrors ==
  \/ Dispatch
  \/ ReduceSettles

SpecErrors == InitErrors /\ [][NextErrors]_vars

NextRetry ==
  \/ Dispatch
  \/ ReduceSettles
  \/ RetryFires

SpecRetry == InitRetry /\ [][NextRetry]_vars

NextWait ==
  \/ Dispatch
  \/ ReduceSettles
  \/ WaitConditionCall
  \/ TimeoutElapses

SpecWait == InitWait /\ [][NextWait]_vars

NextWrap ==
  \/ Dispatch
  \/ ReduceSettles

SpecWrap == InitWrap /\ [][NextWrap]_vars

NextFailed ==
  \/ Dispatch
  \/ ReduceSettles
  \/ ClearExceptionForCall

SpecFailed == InitFailed /\ [][NextFailed]_vars

NextAbort ==
  \/ Dispatch
  \/ ReduceSettles

SpecAbort == InitAbort /\ [][NextAbort]_vars

NextProgress ==
  \/ Dispatch
  \/ ReduceSettles
  \/ WaitAllActionsCall
  \/ WaitAnyActionTypeFinishesCall

SpecProgress == InitProgress /\ [][NextProgress]_vars

NextOrder ==
  \/ Dispatch
  \/ DispatchAllCall
  \/ ReducerDispatches
  \/ ReduceSettles

SpecOrder == InitOrder /\ [][NextOrder]_vars

NextBatch ==
  \/ Dispatch
  \/ DispatchAndWaitAllCall
  \/ ReduceSettles

SpecBatch == InitBatch /\ [][NextBatch]_vars

NextTodo == AddTodoActionDispatch

NextObserve ==
  \/ Dispatch
  \/ ReduceSettles

SpecObserve == InitObserve /\ [][NextObserve]_vars

NextTodoList ==
  \/ AddTodoFromTextCall
  \/ AddTodoCall
  \/ RemoveTodoCall
  \/ RemoveCompletedCall
  \/ ToggleTodoCall

SpecTodoList == InitTodoList /\ [][NextTodoList]_vars

NextLive ==
  \/ Dispatch
  \/ DispatchAndWait
  \/ CallerResumes
  \/ BeforeSettles
  \/ ReduceSettles
  \/ RetryFires
  \/ WaitAllActionsForCall
  \/ WaitTimeoutElapses

SpecLive == InitLive /\ [][NextLive]_vars

\* The timer of a retry fires when its delay is over, and a caller whose
\* promise has resolved goes on.
SpecLiveFair ==
  /\ SpecLive
  /\ WF_vars(RetryFires) /\ WF_vars(CallerResumes)

NextFrame ==
  \/ Dispatch
  \/ BeforeSettles
  \/ ReduceSettles
  \/ OneWaitConditionCall
  \/ OneWaitAllActionsCall
  \/ OneWaitActionTypeCall
  \/ OneWaitAnyActionTypeFinishesCall
  \/ QueryCall

SpecFrame == InitFrame /\ [][NextFrame]_vars

NextIgnoreOld ==
  \/ Dispatch
  \/ ReduceSettles

SpecIgnoreOld == InitIgnoreOld /\ [][NextIgnoreOld]_vars

NextPersist ==
  \/ ReadStateSettles
  \/ DeleteStateSettles
  \/ SaveInitialStateSettles
  \/ StateChanges
  \/ PersistActionDispatch
  \/ PersistDifferenceSettles
  \/ ThrottleTimerFires
  \/ ClockTicks

SpecPersist == InitPersist /\ [][NextPersist]_vars

SpecTodo == InitTodo /\ [][NextTodo]_vars

\* The timer of a timeout fires once its time has passed.
SpecWaitFair == InitWait /\ [][NextWait]_vars /\ WF_vars(TimeoutElapses)

TypeOK ==
  /\ state \in Seq(Acts)
  /\ inProgress \subseteq Acts
  /\ created \in 0..Limit(scenario)
  /\ dispatchCount \in 0..created
  /\ awaiting \subseteq Acts /\ Cardinality(awaiting) <= 1

\* ------------------------------------------------------------- properties
Range(s) == { s[i] : i \in 1..Len(s) }

Threw(x) == x.beforeThrew \/ x.reduceThrew

\* C1: an action whose before() threw, in the dispatch call or after
\* suspending, never had its reduce() called and is completed as failed.
C1_BeforeThrowsSkipsReduce ==
  \A a \in Acts :
    act[a].beforeThrew =>
      /\ act[a].nReduce = 0
      /\ ~ act[a].status.hasFinishedMethodReduce
      /\ IsCompletedFailed(act[a].status)

\* before() threw in the dispatch call for one action and after suspending
\* for another.
C1_Witness ==
  \E a, b \in Acts :
    /\ act[a].beforeThrew /\ ~ act[a].cfg.beforeAsync
    /\ act[b].beforeThrew /\ act[b].cfg.beforeAsync

\* C2: after() runs once for every dispatched action, and only when before()
\* and reduce() are over: never for a running action, exactly once for a
\* completed one, whether both succeeded, before() threw or reduce() threw.
C2_AfterRunsExactlyOnce ==
  \A a \in Acts :
    /\ act[a].nAfter = (IF act[a].status.isCompleted THEN 1 ELSE 0)
    /\ act[a].afterInOrder
    /\ act[a].status.isDispatched /\ BodyIsOver(act[a]) /\ act[a].phase # "retryWait"
         => act[a].nAfter = 1

\* after() has run for an action whose before() threw and for one whose
\* reduce() threw after suspending.
C2_Witness ==
  \E a, b \in Acts :
    /\ act[a].nAfter = 1 /\ act[a].beforeThrew
    /\ act[b].nAfter = 1 /\ act[b].reduceThrew /\ act[b].cfg.reduceAsync

\* C3: an action whose before() or reduce() threw applies nothing: the store
\* state right after it completes is the state found where its result would
\* have been applied, and its change is never part of the state.
C3_FailureAppliesNothing ==
  \A a \in Acts :
    act[a].status.isCompleted /\ Threw(act[a]) =>
      /\ act[a].atEnd = act[a].preApply
      /\ act[a].nApplied = 0
      /\ a \notin Range(state)

\* An async action has failed in its reducer after another action changed the
\* state, and the state is still the one that other action installed.
C3_Witness ==
  \E a \in Acts :
    /\ act[a].status.isCompleted /\ act[a].reduceThrew /\ IsAsync(act[a].cfg)
    /\ act[a].preApply # act[a].atStart.state
    /\ state = act[a].preApply

\* C4: when the promise of dispatchAndWait resolves for an action whose
\* before() and reduce() did not throw, the status it resolves with is
\* completed ok and the store state is the reducer's result, or the state as
\* it was when the reducer returned null.
C4_ResolvedAfterApply ==
  \A a \in Acts :
    act[a].resolved /\ ~ Threw(act[a]) =>
      /\ IsCompletedOk(act[a].resolvedStatus)
      /\ act[a].result = "value" =>
           /\ act[a].resolvedState = Reduced(act[a].preApply, a)
           /\ act[a].nApplied = 1
      /\ act[a].result = "null" => act[a].resolvedState = act[a].preApply

\* A promise has resolved for a reducer that returned a state and for one that
\* returned null.
C4_Witness ==
  \E a, b \in Acts :
    /\ act[a].resolved /\ act[a].result = "value" /\ IsAsync(act[a].cfg)
    /\ act[b].resolved /\ act[b].result = "null" /\ ~ Threw(act[b])

\* C5: the function an async reducer returns is applied to the store state
\* current when it is applied: what other actions applied while this one was
\* suspended is still in the state afterwards.
C5_FunctionAppliedToCurrentState ==
  \A a \in Acts :
    act[a].status.isCompleted /\ act[a].cfg.reduceAsync /\ act[a].result = "value" =>
      /\ act[a].atEnd = Reduced(act[a].preApply, a)
      /\ Range(act[a].preApply) \subseteq Range(act[a].atEnd)

\* Another action changed the state while the async reducer was suspended.
C5_Witness ==
  \E a \in Acts :
    /\ act[a].status.isCompleted /\ act[a].cfg.reduceAsync /\ act[a].result = "value"
    /\ act[a].preApply # act[a].atStart.state

\* C6: when the caller awaits dispatchAndWait(A) and only then calls
\* dispatchAndWait(B), B is dispatched with A completed and A's change in the
\* store state.
C6_SeriesOrder ==
  \A a, b \in Acts :
    a < b /\ act[a].mode = "wait" /\ act[b].mode = "wait" =>
      /\ a \in act[b].atStart.completed
      /\ act[a].nApplied = 1 => a \in Range(act[b].atStart.state)
      /\ act[b].nBefore >= 1 => act[a].status.isCompleted

\* B was dispatched after an async A that changed the state.
C6_Witness ==
  \E a, b \in Acts :
    /\ a < b /\ act[a].mode = "wait" /\ act[b].mode = "wait"
    /\ act[a].cfg.beforeAsync /\ act[a].cfg.reduceAsync /\ act[a].nApplied = 1
    /\ act[b].nBefore = 1

Pos(s, a) == CHOOSE i \in 1..Len(s) : s[i] = a

\* C7: the state changes of actions in flight at once are applied one at a
\* time, each in one step, in the order the actions complete in.
C7_AppliedInCompletionOrder ==
  /\ Cardinality(Range(state)) = Len(state)
  /\ \A a \in Acts :
       /\ a \in Range(state) <=> act[a].nApplied = 1
       /\ act[a].nApplied <= 1
       /\ act[a].nApplied = 1 => act[a].atEnd = act[a].preApply \o <<a>>
  /\ \A a, b \in Range(state) :
       Pos(state, a) < Pos(state, b) <=> act[a].doneAt < act[b].doneAt

\* Two async actions were in flight at once and the one dispatched last
\* completed, and was applied, first.
C7_Witness ==
  \E a, b \in Acts :
    /\ a < b /\ a \in act[b].atStart.running
    /\ IsAsync(act[a].cfg) /\ IsAsync(act[b].cfg)
    /\ a \in Range(state) /\ b \in Range(state)
    /\ Pos(state, b) < Pos(state, a)

\* C8: a nonReentrant action dispatched while an action of its type is in
\* progress is dropped: none of its functions runs and it changes nothing.
\* It is dropped in that case only, so a dispatch after the first instance
\* has completed runs.
C8_NonReentrant ==
  /\ \A a \in Acts :
       act[a].phase # "new" =>
         /\ act[a].phase = "aborted" <=>
              /\ act[a].cfg.nonReentrant
              /\ \E b \in act[a].atStart.running : act[b].cfg.type = act[a].cfg.type
         /\ act[a].phase = "aborted" =>
              /\ act[a].nBefore = 0 /\ act[a].nReduce = 0 /\ act[a].nAfter = 0
              /\ act[a].nApplied = 0
              /\ a \notin Range(state) /\ a \notin inProgress
  /\ \A a, b \in inProgress :
       a # b /\ act[a].cfg.nonReentrant => act[a].cfg.type # act[b].cfg.type

\* Three dispatches of one nonReentrant type: the second came while the first
\* was running and was dropped, the third came after the first had completed
\* and ran.
C8_Witness ==
  \E a, b, c \in Acts :
    /\ a < b /\ b < c
    /\ act[a].cfg.nonReentrant
    /\ act[b].cfg.type = act[a].cfg.type /\ act[c].cfg.type = act[a].cfg.type
    /\ a \in act[b].atStart.running /\ act[b].phase = "aborted"
    /\ a \in act[c].atStart.completed /\ act[c].phase = "done"
    /\ state = <<a, c>>

\* dispatchSync of an action that is not async does what dispatch does with a
\* sync action: the whole lifecycle runs inside the call.
SyncRanAsDispatch(x, a) ==
  /\ x.phase = "done"
  /\ x.status.isDispatched /\ x.status.isCompleted
  /\ x.nBefore = 1 /\ x.nAfter = 1
  /\ x.nReduce = (IF x.beforeThrew THEN 0 ELSE 1)
  /\ x.atEnd = (IF x.nApplied = 1 THEN x.atStart.state \o <<a>> ELSE x.atStart.state)
  /\ x.nApplied = 1 <=> (~ Threw(x) /\ x.result = "value")

StatusOnlyForward(old, new) ==
  /\ old.isCompleted => new.isCompleted
  /\ old.hasFinishedMethodBefore => new.hasFinishedMethodBefore
  /\ old.hasFinishedMethodReduce => new.hasFinishedMethodReduce
  /\ old.hasFinishedMethodAfter => new.hasFinishedMethodAfter

\* C10: isCompleted, hasFinishedMethodBefore, hasFinishedMethodReduce and
\* hasFinishedMethodAfter of an action's status never go from true to false.
C10_StatusOnlyMovesForward ==
  [][\A a \in Acts : StatusOnlyForward(act[a].status, act'[a].status)]_vars

\* An action went through before() and reduce() in separate turns, completed,
\* and the store went on with another action.
C10_Witness ==
  \E a, b \in Acts :
    /\ a < b /\ act[b].status.isDispatched
    /\ act[a].cfg.beforeAsync /\ act[a].cfg.reduceAsync
    /\ act[a].status.isCompleted
    /\ act[a].status.hasFinishedMethodBefore
    /\ act[a].status.hasFinishedMethodAfter

C13_AfterErrorIsSwallowed ==
  \A a \in Acts :
    act[a].afterThrew =>
      /\ act[a].status.isCompleted
      /\ act[a].rethrown # AfterError
      /\ act[a].status.originalError # AfterError
      /\ act[a].status.wrappedError # AfterError
      /\ a \in logged
      /\ ~ Threw(act[a]) =>
           /\ IsCompletedOk(act[a].status)
           /\ act[a].rethrown = NoError
           /\ act[a].result = "value" => (act[a].nApplied = 1 /\ a \in Range(state))

\* after() threw for an action whose reducer had returned a new state, and for
\* one whose reducer had thrown.
C13_Witness ==
  \E a, b \in Acts :
    /\ act[a].afterThrew /\ ~ Threw(act[a]) /\ act[a].result = "value"
    /\ a \in Range(state)
    /\ act[b].afterThrew /\ act[b].reduceThrew

\* The store states since a waitCondition call: the state at the call and the
\* state after each change made since.
Prefix(s, k) == SubSeq(s, 1, k)

\* C14: waitCondition(p) resolves at once when p holds of the state at the
\* call.  Otherwise it is pending as long as p was false after every state
\* change since the call, and it resolves with the state of the first change
\* after which p holds, whatever the state becomes later.
C14_WaitCondition ==
  LET w == waiter
      from == Len(w.calledState)
      hits == { k \in (from + 1)..Len(state) : CondHolds(w.cond, Prefix(state, k)) }
  IN
  w.status # "none" =>
    /\ Prefix(state, from) = w.calledState
    /\ CondHolds(w.cond, w.calledState) =>
         (w.status = "resolved" /\ w.resolvedState = w.calledState /\ w.trigger = {})
    /\ w.status = "pending" => (~ CondHolds(w.cond, w.calledState) /\ hits = {})
    /\ (w.status = "resolved" /\ ~ CondHolds(w.cond, w.calledState)) =>
         /\ hits # {}
         /\ \A k \in hits : Len(w.resolvedState) <= k
         /\ Len(w.resolvedState) \in hits
         /\ w.resolvedState = Prefix(state, Len(w.resolvedState))
         /\ w.trigger = {w.resolvedState[Len(w.resolvedState)]}

\* A call found its condition false, stayed pending across a state change
\* that left it false, and resolved at the next one.
C14_Witness ==
  /\ waiter.status = "resolved"
  /\ ~ CondHolds(waiter.cond, waiter.calledState)
  /\ Len(waiter.resolvedState) >= Len(waiter.calledState) + 2
  /\ waiter.trigger # {}

\* C15: a pending waitCondition with a positive timeout does not stay
\* pending: it resolves, or it rejects with a TimeoutException when the
\* timeout elapses.  A call that found its condition true never times out,
\* and a call whose timeout is 0 or negative never rejects with a timeout.
C15_Timeout ==
  /\ [](waiter.status = "timedOut" =>
          /\ waiter.timeoutMillis > 0
          /\ waiter.error = "TimeoutException"
          /\ ~ CondHolds(waiter.cond, waiter.calledState))
  /\ [](waiter.timeoutMillis <= 0 => (waiter.status # "timedOut" /\ waiter.error = NoError))
  /\ (waiter.status = "pending" /\ waiter.timeoutMillis > 0) ~> (waiter.status # "pending")

\* A call with a positive timeout whose condition is never met has timed out
\* after every action of the run has completed.
C15_Witness ==
  /\ waiter.status = "timedOut"
  /\ waiter.cond.n > MaxWaitActions
  /\ created = MaxWaitActions /\ inProgress = {}

\* The calls of a handler in an action's error log.
Calls(L, f) == { i \in 1..Len(L) : L[i].fn = f }

\* What a handler was due to get: what the last handler before it gave, or
\* the thrown error if it is the first.
Given(L, i, thrown) == IF i = 1 THEN thrown ELSE L[i - 1].out

\* C16: for an error thrown by before() or reduce() the action's wrapError
\* runs first and gets the thrown error, globalWrapError runs next and gets
\* what wrapError returned, errorObserver runs last and gets what
\* globalWrapError returned.  No handler is given an error that an earlier one
\* disabled, and every handler that exists is called for an error that is
\* still there.
C16_HandlerOrder ==
  \A a \in Acts :
    LET x == act[a]
        L == x.errLog
        W == Calls(L, "wrapError")
        G == Calls(L, "globalWrapError")
        O == Calls(L, "errorObserver")
    IN
    /\ L # <<>> => Threw(x)
    /\ Cardinality(W) <= 1 /\ Cardinality(G) <= 1 /\ Cardinality(O) <= 1
    /\ \A i \in W : i = 1
    /\ \A i \in G : i = Cardinality(W) + 1
    /\ \A i \in O : i = Cardinality(W) + Cardinality(G) + 1
    /\ \A i \in W \cup G \cup O :
         /\ L[i].in = Given(L, i, x.cfg.throws)
         /\ L[i].in # NoError
    /\ Threw(x) =>
         /\ W # {} <=> x.cfg.wrapError # "none"
         /\ G # {} <=> (store.globalWrapError # "none" /\ Given(L, Cardinality(W) + 1, x.cfg.throws) # NoError)
         /\ O # {} <=> (store.errorObserver # "none"
                         /\ Given(L, Cardinality(W) + Cardinality(G) + 1, x.cfg.throws) # NoError)

\* The three handlers have run for one error, each on what the one before
\* returned; for another error wrapError returned null and no other ran.
C16_Witness ==
  \E a, b \in Acts :
    /\ Len(act[a].errLog) >= 3
    /\ act[a].errLog[1].fn = "wrapError" /\ act[a].errLog[1].out = WrappedError
    /\ act[a].errLog[2].fn = "globalWrapError" /\ act[a].errLog[2].out = GlobalUserException
    /\ act[a].errLog[3].fn = "errorObserver" /\ act[a].errLog[3].in = GlobalUserException
    /\ Len(act[b].errLog) = 1 /\ act[b].errLog[1].out = NoError

\* C17: when errorObserver returns false for an error, the dispatcher does
\* not throw the error on and the action is completed as failed; when it
\* returns true, the error it was given is thrown on, right after it.
C17_ErrorObserverDecides ==
  \A a \in Acts :
    LET x == act[a]
        L == x.errLog
    IN
    \A i \in Calls(L, "errorObserver") :
      /\ IsCompletedFailed(x.status)
      /\ L[i].out = "false" =>
           /\ x.rethrown = NoError
           /\ Calls(L, "rethrow") = {}
      /\ L[i].out = "true" =>
           /\ x.rethrown = L[i].in
           /\ Calls(L, "rethrow") = {i + 1}
           /\ L[i + 1].in = L[i].in

\* errorObserver has returned false for the error of an async action.
C17_Witness ==
  \E a \in Acts :
    /\ act[a].cfg.reduceAsync /\ act[a].reduceThrew
    /\ \E i \in Calls(act[a].errLog, "errorObserver") : act[a].errLog[i].out = "false"
    /\ act[a].status.isCompleted

\* The error of this action was swallowed: wrapError or globalWrapError
\* returned null for it, or errorObserver returned false.
Swallowed(L) ==
  \E i \in 1..Len(L) :
    \/ L[i].fn \in {"wrapError", "globalWrapError"} /\ L[i].out = NoError
    \/ L[i].fn = "errorObserver" /\ L[i].out = "false"

\* C18: when an error is swallowed by wrapError or globalWrapError returning
\* null or by errorObserver returning false, nothing is thrown on and no later
\* handler runs, and the completed action's status has the thrown error as
\* originalError and, if wrapError changed the error, the changed error as
\* wrappedError.
C18_SwallowedErrorStaysInStatus ==
  \A a \in Acts :
    LET x == act[a]
        L == x.errLog
    IN
    Swallowed(L) =>
      /\ x.rethrown = NoError
      /\ Calls(L, "rethrow") = {}
      /\ \A i \in 1..(Len(L) - 1) :
           L[i].out # NoError /\ ~ (L[i].fn = "errorObserver" /\ L[i].out = "false")
      /\ x.status.isCompleted
      /\ x.status.originalError = x.cfg.throws
      /\ x.cfg.wrapError = "wrap" => x.status.wrappedError = WrappedError

\* An error was changed by wrapError and then disabled by globalWrapError;
\* another was disabled by wrapError.
C18_Witness ==
  \E a, b \in Acts :
    /\ Len(act[a].errLog) = 2
    /\ act[a].errLog[1].out = WrappedError /\ act[a].errLog[2].out = NoError
    /\ act[a].status.wrappedError = WrappedError
    /\ act[b].cfg.wrapError = "null" /\ Swallowed(act[b].errLog)
    /\ act[b].status.originalError = ThrownError

\* The entries of the queue that came from this action.
QueuedFor(a) ==
  { i \in 1..Len(userExceptionsQueue) : userExceptionsQueue[i].action = a }

\* The actions that have finished after before() or reduce() threw.
Failed == { a \in Acts : Threw(act[a]) /\ act[a].status.isCompleted }

Surviving(cfg) ==
  LET e == WrapError(cfg, cfg.throws) IN
  IF e = NoError \/ store.globalWrapError = "none" THEN e
  ELSE GlobalWrapError(store, e)

Types == { cfg.type : cfg \in ClassesOf(scenario) }

\* C20: isWaiting(T) is true exactly when some action of type T is dispatched
\* and not yet completed, and the actions in progress are exactly those.
C20_IsWaiting ==
  /\ \A type \in Types :
       IsWaiting(type) <=>
         \E a \in Acts :
           /\ act[a].cfg.type = type
           /\ act[a].status.isDispatched /\ ~ act[a].status.isCompleted
  /\ inProgress = { a \in Acts : act[a].status.isDispatched /\ ~ act[a].status.isCompleted }

\* Two actions of one type were in progress at once; one has completed, and
\* isWaiting is still true of the type because of the other.
C20_Witness ==
  \E a, b \in Acts :
    /\ a # b /\ act[a].cfg.type = act[b].cfg.type
    /\ a \in act[b].atStart.running
    /\ act[a].status.isCompleted
    /\ b \in inProgress /\ IsWaiting(act[b].cfg.type)

\* C22: an action with retry and maxRetries = n calls its reducer at most
\* n + 1 times, 4 times with the default.  It is waiting for a retry only
\* after a failed attempt with retries left; it stops at the first attempt
\* that does not throw; when all n + 1 attempts threw it is completed as
\* failed, and the error in its status and the error thrown on are those of
\* the last attempt.
C22_Retry ==
  \A a \in Acts :
    LET x == act[a] IN
    x.cfg.retryOn =>
      /\ x.nReduce <= x.cfg.maxRetries + 1
      /\ x.cfg.type = "RetryDefault" => x.nReduce <= 4
      /\ x.phase = "retryWait" =>
           (x.nReduce = x.nReduceThrew /\ x.nReduce <= x.cfg.maxRetries)
      /\ IsCompletedOk(x.status) =>
           (x.nReduce = x.nReduceThrew + 1 /\ x.result # "throw")
      /\ (x.status.isCompleted /\ ~ x.beforeThrew /\ ~ IsCompletedOk(x.status)) =>
           /\ x.nReduce = x.cfg.maxRetries + 1
           /\ x.nReduceThrew = x.nReduce
           /\ x.status.originalError = x.cfg.throws \o ToString(x.cfg.maxRetries + 1)
           /\ x.rethrown = x.status.originalError
           /\ IsCompletedFailed(x.status)

\* An action with the default maxRetries has failed at its fourth attempt, and
\* another action succeeded at its second attempt.
C22_Witness ==
  \E a, b \in Acts :
    /\ act[a].cfg.type = "RetryDefault" /\ IsCompletedFailed(act[a].status)
    /\ act[a].nReduce = 4
    /\ act[b].cfg.retryOn /\ IsCompletedOk(act[b].status) /\ act[b].nReduce = 2

\* C28: when before() of an action with retry throws, there is no retry:
\* before() was called once, the reducer never, and the action is completed as
\* failed in the turn before() threw in.
C28_BeforeThrowsNoRetry ==
  \A a \in Acts :
    (act[a].cfg.retryOn /\ act[a].beforeThrew) =>
      /\ act[a].nBefore = 1
      /\ act[a].nReduce = 0
      /\ act[a].phase = "done"
      /\ IsCompletedFailed(act[a].status)
      /\ act[a].status.originalError = act[a].cfg.throws

\* before() of an action with retries left has thrown.
C28_Witness ==
  \E a \in Acts :
    /\ act[a].cfg.retryOn /\ act[a].cfg.maxRetries >= 1 /\ act[a].beforeThrew
    /\ act[a].status.isCompleted

\* C27: for every failed action, status.originalError is the error before()
\* or reduce() threw and status.wrappedError is what the action's wrapError()
\* left of it; when wrapError() is not overridden, returns the error as it is
\* or returns nothing, the two are the same error.
C27_OriginalAndWrappedError ==
  \A a \in Acts :
    LET x == act[a] IN
    IsCompletedFailed(x.status) =>
      /\ x.beforeThrew \/ x.reduceThrew
      /\ x.status.originalError = x.cfg.throws
      /\ x.cfg.wrapError = "wrap" => x.status.wrappedError = WrappedError
      /\ x.cfg.wrapError = "null" => x.status.wrappedError = NoError
      /\ x.cfg.wrapError \in {"none", "same", "undefined"} =>
            x.status.wrappedError = x.status.originalError

\* Two actions have failed: one whose wrapError() was called and returned
\* nothing, and one that wraps its error.
C27_Witness ==
  \E a, b \in Acts :
    /\ IsCompletedFailed(act[a].status) /\ IsCompletedFailed(act[b].status)
    /\ act[a].cfg.wrapError = "undefined"
    /\ Len(act[a].errLog) >= 1 /\ act[a].errLog[1].fn = "wrapError"
    /\ act[a].status.wrappedError = act[a].cfg.throws
    /\ act[b].cfg.wrapError = "wrap"
    /\ act[b].status.wrappedError # act[b].status.originalError

\* The failed actions of the type whose failure still stands: no action of
\* the type was dispatched and no clearExceptionFor(type) was called since
\* they failed.
StandingFailures(type) ==
  { a \in Acts :
      /\ act[a].cfg.type = type
      /\ IsCompletedFailed(act[a].status)
      /\ ~ act[a].cleared
      /\ ~ \E b \in Acts : /\ act[b].cfg.type = type
                           /\ act[b].status.isDispatched
                           /\ a \in act[b].atStart.completed }

\* C21: once an action of type T has failed, isFailed(T) is true and
\* exceptionFor(T) gives its error, until clearExceptionFor(T) is called or an
\* action of type T is dispatched; that dispatch clears the failure at once,
\* while the new action is still running.
C21_IsFailedUntilCleared ==
  \A type \in Types :
    LET F == StandingFailures(type) IN
    /\ IsFailed(type) <=> F # {}
    /\ F # {} =>
         \E a \in F :
           /\ \A b \in F : act[b].doneAt <= act[a].doneAt
           /\ \E f \in failed : f.type = type /\ f.action = a
           /\ ExceptionFor(type) = act[a].status.originalError
           /\ ExceptionFor(type) = act[a].cfg.throws
    /\ F = {} => ExceptionFor(type) = NoError

\* A LoadText failed, and a LoadText dispatched after that is still running:
\* the failure is cleared already.  Another type is still failed.
C21_Witness ==
  \E a, b, c \in Acts :
    /\ act[a].cfg.type = "LoadText" /\ act[b].cfg.type = "LoadText"
    /\ IsCompletedFailed(act[a].status) /\ ~ act[a].cleared
    /\ a \in act[b].atStart.completed
    /\ b \in inProgress
    /\ ~ IsFailed("LoadText")
    /\ act[c].cfg.type = "AddTodoAction"
    /\ IsFailed("AddTodoAction") /\ ExceptionFor("AddTodoAction") = UserException

\* What abortDispatch() of an action of the class gives when the store state
\* is s: true if the class overrides it and no LogIn has changed the state.
Aborts(cfg, s) ==
  /\ cfg.abortDispatch = "noUser"
  /\ ~ \E i \in 1..Len(s) : act[s[i]].cfg.type = "LogIn"

\* The action was never run: it is not dispatched, none of its methods was
\* called, and it is not in progress.
NeverRan(x, a, running, s) ==
  /\ ~ x.status.isDispatched /\ ~ x.status.isCompleted
  /\ x.nBefore = 0 /\ x.nReduce = 0 /\ x.nAfter = 0
  /\ a \notin running
  /\ a \notin Range(s)

\* C25: when abortDispatch() returns true at the dispatch, the action is not
\* dispatched: before(), reduce() and after() are never called and the
\* dispatch leaves the state as it is; when it returns false the action runs:
\* before() is called, the action is in progress or (always, if it is sync)
\* has completed in the dispatch, and a completed action has had its after().
C25_AbortDispatch ==
  [][ \A a \in Acts :
        /\ (act[a].phase = "new" /\ act'[a].phase # "new") =>
              IF Aborts(act'[a].cfg, state)
              THEN /\ state' = state
                   /\ dispatchCount' = dispatchCount
                   /\ NeverRan(act'[a], a, inProgress', state')
              ELSE /\ act'[a].status.isDispatched
                   /\ act'[a].nBefore = 1
                   /\ IF a \in inProgress' THEN IsAsync(act'[a].cfg)
                      ELSE act'[a].status.isCompleted /\ act'[a].nAfter = 1
        /\ (act[a].phase = "aborted") =>
              /\ act'[a] = act[a]
              /\ NeverRan(act'[a], a, inProgress', state')
        /\ (act'[a].status.isCompleted /\ ~ act[a].status.isCompleted) =>
              act'[a].nAfter = 1
    ]_vars

\* An UpdateUserInfo was dispatched with no user and never ran; after LogIn
\* had put the user into the state, another one ran and changed the state.
C25_Witness ==
  \E a, b, c \in Acts :
    /\ act[a].cfg.type = "UpdateUserInfo" /\ act[a].phase = "aborted"
    /\ act[a].nBefore = 0 /\ act[a].nReduce = 0 /\ act[a].nAfter = 0
    /\ act[b].cfg.type = "LogIn" /\ b \in Range(state)
    /\ act[c].cfg.type = "UpdateUserInfo" /\ IsCompletedOk(act[c].status)
    /\ a < b /\ b < c
    /\ c \in Range(state)

C30_WaitAnyActionTypeFinishes ==
  LET aw == actionWaiter
      since == { b \in Acts : /\ act[b].cfg.type \in aw.types
                              /\ act[b].status.isCompleted
                              /\ b \notin aw.calledCompleted }
  IN
  aw.kind = "anyTypeFinishes" =>
    /\ aw.status \in {"pending", "resolved"}
    /\ aw.status = "pending" <=> since = {}
    /\ aw.status = "resolved" =>
          \E a \in since :
            /\ aw.trigger = {a}
            /\ \A b \in since : act[a].doneAt <= act[b].doneAt
            /\ a \notin aw.resolvedRunning

\* The call was made when no action of the type was in progress; an action of
\* the type was dispatched after the call, finished, and resolved the promise.
C30_Witness ==
  \E a \in Acts :
    /\ actionWaiter.kind = "anyTypeFinishes"
    /\ actionWaiter.status = "resolved"
    /\ actionWaiter.trigger = {a}
    /\ a \notin actionWaiter.calledRunning /\ a \notin actionWaiter.calledCompleted
    /\ ~ \E b \in actionWaiter.calledRunning : act[b].cfg.type \in actionWaiter.types
    /\ IsAsync(act[a].cfg)

\* C23: the promise of dispatchAndWaitAll(actions) resolves only once every
\* action of the list has completed, with the state changes of all of them
\* applied, and resolves to the actions given, in the order given; the list
\* may hold sync and async actions, and actions that fail.
C23_DispatchAndWaitAll ==
  LET given == { a \in Acts : act[a].mode = "waitAll" } IN
  /\ batch.status = "none" <=> given = {}
  /\ (\E a \in given : ~ act[a].status.isCompleted) => batch.status = "pending"
  /\ batch.status = "resolved" =>
       /\ given \subseteq batch.resolvedCompleted
       /\ \A a \in given : act[a].nApplied = 1 => a \in Range(batch.resolvedState)
       /\ Range(batch.result) = given
       /\ Len(batch.result) = Cardinality(given)
       /\ \A i \in 1..(Len(batch.result) - 1) : batch.result[i + 1] = batch.result[i] + 1

\* dispatchAndWaitAll([a, b]) with a async, b sync: b completed first and
\* changed the state, a failed later, and the promise resolved to [a, b].
C23_Witness ==
  \E a, b \in Acts :
    /\ batch.status = "resolved"
    /\ batch.result = <<a, b>>
    /\ IsAsync(act[a].cfg) /\ ~ IsAsync(act[b].cfg)
    /\ IsCompletedFailed(act[a].status) /\ IsCompletedOk(act[b].status)
    /\ act[b].doneAt < act[a].doneAt
    /\ b \in Range(batch.resolvedState)

\* The places of the entries of the action in the recording: of its start
\* (ini) and of its end.
Entries(a, ini) ==
  { i \in 1..Len(recording.result) :
      recording.result[i].action = a /\ recording.result[i].ini = ini }

\* C29: actions start in the order they are dispatched in, also those of a
\* dispatchAll list, and a sync action ends in its dispatch: its end entry
\* follows its ini entry and the next action dispatched starts from the state
\* it left or a later one.  A sync action dispatched by the reducer of another action starts
\* and ends between the start and the end of that action in the recording.
C29_DispatchOrder ==
  LET R == recording.result
      Ini == SelectSeq(R, LAMBDA e : e.ini)
  IN
  /\ Len(Ini) = Cardinality({ a \in Acts : act[a].status.isDispatched })
  /\ Len(R) - Len(Ini) = Cardinality({ a \in Acts : act[a].status.isCompleted })
  /\ \A k \in 1..Len(Ini) : Ini[k].action = k /\ Ini[k].dispatchCount = k
  /\ \A i \in 1..Len(R) :
       (R[i].ini /\ ~ IsAsync(act[R[i].action].cfg)) =>
          /\ i < Len(R)
          /\ R[i + 1].action = R[i].action /\ ~ R[i + 1].ini
  /\ \A a \in Acts :
       /\ (act[a].status.isDispatched /\ ~ IsAsync(act[a].cfg)) =>
            \A b \in Acts :
              (b = a + 1 /\ act[b].status.isDispatched) =>
                 /\ a \in act[b].atStart.completed
                 /\ Len(act[a].atEnd) <= Len(act[b].atStart.state)
                 /\ SubSeq(act[b].atStart.state, 1, Len(act[a].atEnd)) = act[a].atEnd
                 /\ act[a].nApplied = 1 => a \in Range(act[b].atStart.state)
       /\ (act[a].parent # 0 /\ ~ IsAsync(act[a].cfg)) =>
            \A i \in Entries(a, TRUE), k \in Entries(act[a].parent, TRUE) :
              /\ k < i
              /\ (i + 1) \in Entries(a, FALSE)
              /\ \A m \in Entries(act[a].parent, FALSE) :
                   /\ i + 1 < m
                   /\ Len(R[i + 1].newState) <= Len(R[m].prevState)

\* The run of the example: dispatchAll([SetNameAction, StartLoginAction]), the
\* reducer of StartLoginAction dispatches ResetNameAction and then finishes;
\* the recording holds the six entries in the order of the example.
C29_Witness ==
  /\ Len(recording.result) = 6
  /\ [ i \in 1..6 |-> recording.result[i].action ] = <<1, 1, 2, 3, 3, 2>>
  /\ [ i \in 1..6 |-> recording.result[i].ini ] = <<TRUE, FALSE, TRUE, TRUE, FALSE, FALSE>>
  /\ act[1].mode = "all" /\ act[2].mode = "all" /\ act[3].parent = 2
  /\ act[1].cfg.type = "SetNameAction"
  /\ state = <<1, 3, 2>>

\* The text as the list stores it: trimmed, with its first letter in upper
\* case.
Stored(text) ==
  LET first == CHOOSE i \in 1..(Len(text) + 1) :
                 /\ i = Len(text) + 1 \/ text[i] # " "
                 /\ \A j \in 1..(i - 1) : text[j] = " "
      last == CHOOSE i \in 0..Len(text) :
                 /\ i = 0 \/ text[i] # " "
                 /\ \A j \in (i + 1)..Len(text) : text[j] = " "
      trimmed == IF first > last THEN <<>> ELSE SubSeq(text, first, last)
      upper(c) == IF c = "a" THEN "A" ELSE IF c = "b" THEN "B" ELSE c
  IN [ i \in 1..Len(trimmed) |-> IF i = 1 THEN upper(trimmed[i]) ELSE trimmed[i] ]

\* Two texts are the same whatever the case of their letters.
SameText(s, t) ==
  LET lower(c) == IF c = "A" THEN "a" ELSE IF c = "B" THEN "b" ELSE c IN
  /\ Len(s) = Len(t)
  /\ \A i \in 1..Len(s) : lower(s[i]) = lower(t[i])

\* C26: AddTodoAction(text) puts a new item with the text first in the list,
\* unless the text, as the list stores it, is in the list already whatever
\* the case; then the action fails with a UserException as its originalError
\* and the list is as it was.
C26_AddTodoAction ==
  LET stored == Stored(todo.text)
      exists == \E i \in 1..Len(todo.prevList) : SameText(todo.prevList[i].text, stored)
  IN
  todo.status.isDispatched =>
    IF exists
    THEN /\ IsCompletedFailed(todo.status)
         /\ todo.status.originalError = UserException
         /\ todo.todoList = todo.prevList
    ELSE /\ IsCompletedOk(todo.status)
         /\ todo.todoList = <<[text |-> stored, completed |-> FALSE]>> \o todo.prevList

\* The list holds "A" and AddTodoAction(" a") was dispatched: the action has
\* completed without an error and the list is as it was.
C26_Witness ==
  /\ todo.text = <<" ", "a">>
  /\ todo.prevList = << [text |-> <<"A">>, completed |-> FALSE] >>
  /\ IsCompletedOk(todo.status)
  /\ todo.todoList = todo.prevList

\* The places, among the observers' calls, of the calls of one observer for
\* the action.
ObserverCalls(fn, a, ini) ==
  { i \in 1..Len(observers.calls) :
      /\ observers.calls[i].fn = fn
      /\ observers.calls[i].action = a
      /\ observers.calls[i].ini = ini }

\* C31: for each dispatch, actionObserver is called twice with the action:
\* with ini = true at the dispatch, when the state is as the dispatch found it,
\* and with ini = false once the action has finished, after() included, when
\* the state has the action's change.  The dispatchCount of the k-th dispatch
\* is k, and the call with ini = false gets a count that is not lower.
C31_ActionObserver ==
  LET C == observers.calls
      Ini == SelectSeq(C, LAMBDA c : c.fn = "actionObserver" /\ c.ini)
  IN
  /\ Len(Ini) = dispatchCount
  /\ \A k \in 1..Len(Ini) : Ini[k].dispatchCount = k /\ Ini[k].action = k
  /\ \A a \in Acts :
       LET I == ObserverCalls("actionObserver", a, TRUE)
           E == ObserverCalls("actionObserver", a, FALSE)
       IN
       /\ Cardinality(I) = IF act[a].status.isDispatched THEN 1 ELSE 0
       /\ Cardinality(E) = IF act[a].status.isCompleted THEN 1 ELSE 0
       /\ \A i \in I :
            /\ C[i].storeState = act[a].atStart.state
            /\ C[i].nApplied = 0
            /\ a \notin Range(C[i].storeState)
       /\ \A i \in I, e \in E :
            /\ i < e
            /\ C[e].storeState = act[a].atEnd
            /\ C[e].nApplied = act[a].nApplied
            /\ act[a].nApplied = 1 => a \in Range(C[e].storeState)
            /\ C[e].nAfter = 1
            /\ C[i].dispatchCount <= C[e].dispatchCount
            /\ C[e].dispatchCount <= dispatchCount

\* Two async actions were in flight at once; the one dispatched last finished
\* first, and the other then changed the state: the observer was called with
\* ini(1), ini(2), end of the second, end of the first.
C31_Witness ==
  \E a, b \in Acts :
    /\ a < b /\ IsAsync(act[a].cfg) /\ IsAsync(act[b].cfg)
    /\ act[a].status.isCompleted /\ act[b].status.isCompleted
    /\ a \in Range(state)
    /\ \E i \in ObserverCalls("actionObserver", b, FALSE),
          j \in ObserverCalls("actionObserver", a, FALSE) : i < j
    /\ \E i \in ObserverCalls("actionObserver", b, TRUE) :
          observers.calls[i].dispatchCount = 2

\* C32: stateObserver is called once for every dispatched action, when its
\* reducer is over and before its after(), its wrapError() and the
\* globalWrapError().  prevState is the state right before the result is
\* applied and newState the state the result leaves; for an action that failed,
\* error is the error as it was thrown and prevState and newState are both the
\* state of the store.
C32_StateObserver ==
  LET C == observers.calls IN
  \A a \in Acts :
    LET S == ObserverCalls("stateObserver", a, FALSE)
        x == act[a]
    IN
    /\ Cardinality(S) = IF x.status.isCompleted THEN 1 ELSE 0
    /\ \A i \in S :
         /\ C[i].nAfter = 0
         /\ C[i].nHandlers = 0
         /\ x.beforeThrew \/ x.nReduce = 1
         /\ \A j \in ObserverCalls("actionObserver", a, TRUE) : j < i
         /\ \A j \in ObserverCalls("actionObserver", a, FALSE) : i < j
         /\ C[i].prevState = x.preApply
         /\ IF Threw(x)
            THEN /\ C[i].error = x.cfg.throws
                 /\ C[i].error = x.status.originalError
                 /\ C[i].prevState = C[i].storeState
                 /\ C[i].newState = C[i].storeState
                 /\ C[i].newState = x.atEnd
            ELSE /\ C[i].error = NoError
                 /\ x.status.hasFinishedMethodReduce
                 /\ C[i].newState =
                      IF x.result = "value" THEN Reduced(x.preApply, a) ELSE x.preApply
                 /\ C[i].newState = x.atEnd

\* In a store with a globalWrapError, an action that wraps its errors failed:
\* the observer got the error as thrown, and both handlers ran after it.
\* Another action changed the state it found, which was not the state it was
\* dispatched with.
C32_Witness ==
  \E a, b \in Acts :
    /\ store.globalWrapError = "wrap"
    /\ act[a].cfg.wrapError = "wrap" /\ IsCompletedFailed(act[a].status)
    /\ Len(act[a].errLog) = 2
    /\ act[a].status.wrappedError = WrappedError
    /\ \E i \in ObserverCalls("stateObserver", a, FALSE) :
         observers.calls[i].error = ThrownError
    /\ IsCompletedOk(act[b].status) /\ act[b].result = "value"
    /\ act[b].preApply # act[b].atStart.state
    /\ \E i \in ObserverCalls("stateObserver", b, FALSE) :
         observers.calls[i].prevState = act[b].preApply

\* The positions in the calls of the persistor of the calls of function fn.
PersistorCalls(fn) ==
  {i \in 1..Len(persist.calls) : persist.calls[i].fn = fn}

\* C33: when the store is created with a persistor, readState() is called
\* once, before anything else.  If it returned null, saveInitialState() is
\* called with the initial state and deleteState() is not; if it failed,
\* deleteState() is called and, when it is over, saveInitialState() with the
\* initial state; if it returned a valid state, that state becomes the state of
\* the store and neither function is called.
C33_StartUp ==
  LET C == persist.calls
      R == PersistorCalls("readState")
      D == PersistorCalls("deleteState")
      S == PersistorCalls("saveInitialState")
      started == persist.phase = "ready"
  IN
  /\ R = {1}
  /\ persist.phase = "reading" <=> persist.read = "none"
  /\ \A i \in D \cup S \cup PersistorCalls("persistDifference") : C[1].endedAt >= 0
  /\ persist.read = "null" =>
       /\ D = {}
       /\ S = {2}
       /\ C[2].newState = InitialState
       /\ started => C[2].endedAt >= 0 /\ persist.state.from = "initialState"
  /\ persist.read = "error" =>
       /\ D = {2}
       /\ S \subseteq {3}
       /\ persist.phase # "deleting" => S = {3}
       /\ \A i \in S : /\ C[2].endedAt >= 0
                       /\ C[i].startedAt >= C[2].endedAt
                       /\ C[i].newState = InitialState
       /\ started => C[3].endedAt >= 0 /\ persist.state.from = "initialState"
  /\ persist.read = "valid" =>
       /\ D = {} /\ S = {}
       /\ started
       /\ persist.state.from = "saved"
  /\ PersistorCalls("persistDifference") # {} => persist.read # "none"

\* The state that was saved could not be read: it was deleted, the initial
\* state was saved some time later, and the store has started up.
C33_Witness ==
  /\ persist.read = "error"
  /\ persist.phase = "ready"
  /\ Len(persist.calls) >= 3
  /\ persist.calls[2].fn = "deleteState"
  /\ persist.calls[3].fn = "saveInitialState"
  /\ persist.calls[3].startedAt > persist.calls[1].startedAt

\* The calls of persistDifference(), in the order they were made.
PersistDifferenceCalls ==
  SelectSeq(persist.calls, LAMBDA c : c.fn = "persistDifference")

\* C34: once the store has started up, a change of the state schedules a call
\* of persistDifference(): a state that is not persisted has a call that is
\* scheduled or running.  No two calls run at once; a call that is not that of
\* a PersistAction starts no sooner than the throttle interval after the call
\* before it started; a call starts only when the one before it is over, and is
\* given what that one persisted and the state the store holds as it starts.
C34_Always ==
  LET PD == PersistDifferenceCalls IN
  /\ persist.running \in {0, 1}
  /\ persist.running = Cardinality({i \in 1..Len(PD) : PD[i].endedAt < 0})
  /\ persist.phase = "ready" /\ persist.state # persist.lastPersistedState =>
       persist.due \/ persist.forced \/ persist.running > 0
  /\ \A i \in 1..Len(PD) - 1 :
       /\ PD[i].endedAt >= 0
       /\ PD[i + 1].startedAt >= PD[i].endedAt
       /\ ~ PD[i + 1].byPersistAction =>
            PD[i + 1].startedAt - PD[i].startedAt >= DefaultThrottleMillis
       /\ PD[i + 1].lastPersistedState = PD[i].newState
  /\ \A i \in 1..Len(PD) : PD[i].newState.changes <= persist.state.changes

\* A step that calls persistDifference() gives it the last persisted state and
\* the state of the store; a step that changes the state calls it or leaves a
\* call scheduled.
C34_Step ==
  /\ (/\ Len(persist'.calls) > Len(persist.calls)
      /\ persist'.calls[Len(persist'.calls)].fn = "persistDifference") =>
       LET c == persist'.calls[Len(persist'.calls)] IN
       /\ persist'.running = 1
       /\ \A i \in 1..Len(persist.calls) : persist'.calls[i].endedAt >= 0
       /\ c.newState = persist'.state
       /\ c.lastPersistedState = persist'.lastPersistedState
       /\ c.startedAt = persist'.now
  /\ persist.phase = "ready" /\ persist'.state # persist.state =>
       \/ persist'.due
       \/ /\ Len(persist'.calls) = Len(persist.calls) + 1
          /\ persist'.calls[Len(persist'.calls)].newState = persist'.state

SubmittedAndNotOver == { a \in Acts : act[a].status.isDispatched /\ act[a].nAfter = 0 }

C35_Always ==
  /\ inProgress = SubmittedAndNotOver
  /\ \A a \in Acts : act[a].status.isCompleted => a \notin inProgress
  /\ \A a \in Acts : act[a].phase \in {"aborted", "refused"} => a \notin inProgress

\* An action enters the set in the step that dispatches it and leaves it in
\* the step that completes it, after its after().
C35_Step ==
  \A a \in Acts :
    /\ a \in inProgress' \ inProgress =>
         ~ act[a].status.isDispatched /\ act'[a].status.isDispatched
    /\ a \in inProgress \ inProgress' =>
         /\ ~ act[a].status.isCompleted /\ act'[a].status.isCompleted
         /\ act[a].nAfter = 0 /\ act'[a].nAfter = 1
    /\ act'[a].status.isDispatched /\ ~ act[a].status.isDispatched
         /\ ~ act'[a].status.isCompleted => a \in inProgress'

\* C35: the set actionsInProgress() returns holds exactly the actions that
\* were submitted and whose after() is not over.  An action enters the set in
\* the step that dispatches it and leaves it in the step that completes it;
\* no action with status.isCompleted is in the set, nor one that was refused.
C35_ActionsInProgress == [] C35_Always /\ [][C35_Step]_vars

\* An action that failed an attempt waits in the set for its retry, while an
\* action that has completed is not in the set.
C35_Witness ==
  \E a, b \in Acts :
    /\ act[a].status.isCompleted /\ act[a].nAfter = 1 /\ a \notin inProgress
    /\ b \in inProgress /\ act[b].phase = "retryWait"
    /\ inProgress = {b}

\* The actions of the type of a that were dispatched after a and before a
\* completed.
NewerAtApply(a) ==
  { b \in Acts : /\ b > a
                 /\ act[b].status.isDispatched
                 /\ act[b].cfg.type = act[a].cfg.type
                 /\ a \notin act[b].atStart.completed }

\* C36: the state an ignoreOld action's reducer returned is applied only if,
\* when the reducer is over, no action of its type was dispatched after it; a
\* result of an older action is discarded, so that in the state the results of
\* the actions of the type are in dispatch order.  The reducer of the older
\* action is not stopped: the action goes on running and completes, without an
\* error, once its reducer has returned.  Actions without ignoreOld are
\* applied whatever was dispatched after them.
C36_IgnoreOld ==
  /\ \A a \in Acts :
       LET x == act[a] IN
       /\ x.status.isCompleted =>
            (x.nApplied = 1 <=>
               x.result = "value" /\ ~ (x.cfg.ignoreOld /\ NewerAtApply(a) # {}))
       /\ x.nApplied \in {0, 1}
       /\ x.nApplied = 1 <=> a \in Range(state)
       /\ x.status.isDispatched /\ ~ x.status.isCompleted =>
            a \in inProgress /\ x.phase = "reduce" /\ x.nReduce = 1
       /\ x.status.isCompleted /\ x.cfg.ignoreOld /\ NewerAtApply(a) # {}
            /\ x.result = "value" =>
            /\ x.nReduce = 1 /\ x.nAfter = 1
            /\ x.status.hasFinishedMethodReduce
            /\ IsCompletedOk(x.status)
            /\ x.atEnd = x.preApply
  /\ \A a, b \in Acts :
       /\ a < b
       /\ act[a].cfg.ignoreOld
       /\ act[a].cfg.type = act[b].cfg.type
       /\ a \in Range(state) /\ b \in Range(state)
       => Pos(state, a) < Pos(state, b)

\* Two LoadText were dispatched; the newer one finished first and its result
\* is in the state; the older one then finished with a result that was
\* discarded.
C36_Witness ==
  \E a, b \in Acts :
    /\ a < b
    /\ act[a].cfg.ignoreOld /\ act[b].cfg.type = act[a].cfg.type
    /\ act[a].status.isCompleted /\ act[b].status.isCompleted
    /\ act[b].doneAt < act[a].doneAt
    /\ act[a].result = "value" /\ act[b].result = "value"
    /\ act[a].nApplied = 0 /\ act[a].nReduce = 1
    /\ b \in Range(state) /\ a \notin Range(state)

\* The actions whose result is applied in the step.
AppliedInStep == { a \in Acts : act'[a].nApplied # act[a].nApplied }

\* The step is a call of a wait function or of a query.
WaitOrQueryStep ==
  \/ waiter.status = "none" /\ waiter'.status # "none"
  \/ actionWaiter.status = "none" /\ actionWaiter'.status # "none"
  \/ asked' # asked

C37_Step ==
  /\ state' # state =>
       \E a \in AppliedInStep :
         /\ AppliedInStep = {a}
         /\ act[a].nApplied = 0 /\ act'[a].nApplied = 1
         /\ act'[a].result = "value" /\ ~ Threw(act'[a])
         /\ act'[a].status.hasFinishedMethodReduce
         /\ state' = Reduced(state, a)
         /\ act'[a].preApply = state
         /\ IsCompletedOk(act'[a].status)
  /\ AppliedInStep = {} => state' = state
  /\ WaitOrQueryStep => state' = state /\ act' = act /\ inProgress' = inProgress
  /\ \A a \in Acts :
       \* a is submitted and its before() or reduce() is pending
       /\ ~ act[a].status.isDispatched /\ act'[a].status.isDispatched
            /\ ~ act'[a].status.isCompleted => state' = state
       \* its before() returns and its reduce() is pending
       /\ act'[a].nBefore # act[a].nBefore
            \/ (act[a].phase = "before" /\ act'[a].phase # "before") =>
            act'[a].status.isCompleted \/ state' = state
       \* it fails, or its reducer returns null
       /\ ~ act[a].status.isCompleted /\ act'[a].status.isCompleted
            /\ (Threw(act'[a]) \/ act'[a].result # "value") =>
            state' = state /\ act'[a].nAfter = 1

\* C37: the state of the store changes only in the step that applies the
\* result of an action whose reducer returned a state, and then to that
\* result.  A step that submits an action, runs its before() or its after(),
\* or makes it fail leaves the state as it is, and so does a call of
\* waitCondition, waitAllActions, waitActionType or waitAnyActionTypeFinishes,
\* or of isWaiting, isFailed, exceptionFor or actionsInProgress.
C37_StateWrittenOnApply == [][C37_Step]_vars

\* The state has the result of one action, while another failed after its
\* before() had returned, and a wait function was called and has resolved.
C37_Witness ==
  \E a, b \in Acts :
    /\ state = <<a>>
    /\ IsCompletedFailed(act[b].status) /\ act[b].cfg.beforeAsync
    /\ act[b].status.hasFinishedMethodBefore /\ act[b].nAfter = 1
    /\ actionWaiter.kind = "type" /\ actionWaiter.status = "resolved"
    /\ actionWaiter.trigger # {}

\* The actions dispatchSync refused with a StoreException.
Refused == { a \in Acts : act[a].storeException }

C38_Always ==
  /\ \A a \in Refused :
       /\ act[a].mode = "sync" /\ IsAsync(act[a].cfg)
       /\ a \notin inProgress
       /\ a \notin Range(state) /\ act[a].nApplied = 0
       /\ act[a].nBefore = 0 /\ act[a].nReduce = 0
       /\ ~ act[a].status.isDispatched
  /\ \A type \in { cfg.type : cfg \in ClassesOf(scenario) } :
       IsWaiting(type) <=>
         \E b \in Acts \ Refused :
           /\ act[b].cfg.type = type
           /\ act[b].status.isDispatched /\ ~ act[b].status.isCompleted
  /\ (\A b \in Acts \ Refused : act[b].status.isDispatched => act[b].status.isCompleted)
       => StillAwaited(World, {}) = {}

\* The step in which dispatchSync refuses an action changes neither the state
\* nor the set of actions in progress.
C38_Step ==
  \A a \in Acts :
    act'[a].storeException /\ ~ act[a].storeException =>
      /\ state' = state
      /\ inProgress' = inProgress
      /\ dispatchCount' = dispatchCount
      /\ failed' = failed

BodiesReturn ==
  \A a \in 1..MaxLiveActions : []<>(act[a].phase \notin {"before", "reduce"})

\* Every action that is dispatched completes in the end and leaves the set of
\* actions in progress, and the promise of every dispatchAndWait resolves.
ActionsComplete ==
  \A a \in 1..MaxLiveActions :
    act[a].status.isDispatched ~>
      /\ act[a].status.isCompleted /\ a \notin inProgress
      /\ act[a].mode = "wait" => act[a].resolved

\* An action that has completed stays completed and out of the set of actions
\* in progress.
CompletedForGood ==
  \A a \in Acts :
    act[a].status.isCompleted => act'[a].status.isCompleted /\ a \notin inProgress'

\* What holds of a waitAllActions([]) call whatever the actions do: only a
\* pending call with a timeout times out, a promise that resolves finds no
\* action in progress, and a call made while no action is in progress is over
\* at once, completed or, without completeImmediately, an error.
WaitAllActionsSettled ==
  /\ actionWaiter.status = "timedOut" =>
       /\ HasTimeout(actionWaiter.timeoutMillis)
       /\ actionWaiter.error = "TimeoutException"
       /\ actionWaiter.calledRunning # {}
  /\ actionWaiter.status = "resolved" => actionWaiter.resolvedRunning = {}
  /\ actionWaiter.status # "none" /\ actionWaiter.calledRunning = {} =>
       actionWaiter.status \in {"resolved", "error"}

C40_TodoList ==
  LET items == todo.todoList IN
  /\ \A i \in 1..Len(items) : items[i].text # <<>>
  /\ \A i, j \in 1..Len(items) :
       i # j => ToLowerCase(items[i].text) # ToLowerCase(items[j].text)

\* The list holds two items, one of them completed; a call that was given
\* the text of an item in the other case left the list as it was.
C40_Witness ==
  LET items == todo.todoList IN
  /\ Len(items) = 2
  /\ \E i \in 1..2 : items[i].completed
  /\ todo.text # <<>>
  /\ todo.prevList = items
  /\ \E i \in 1..2 :
       /\ items[i].text # todo.text
       /\ ToLowerCase(items[i].text) = ToLowerCase(todo.text)

====
